---------------------------- MODULE Spec2Model ----------------------------
(***************************************************************************)
(* @nextnode/validation: the issue formatter (DefaultErrorFormatter) and   *)
(* the schema wrapper (createValidationEngine / createSchema).             *)
(*                                                                         *)
(* Strings whose characters the code inspects (`expected`, `message`) are  *)
(* sequences of one-character strings, so that includes, split, trim,      *)
(* toLowerCase and the regular expressions are computed character by       *)
(* character.  Strings the code only compares as a whole (error codes,     *)
(* object keys) are TLA+ strings.                                          *)
(***************************************************************************)
EXTENDS Integers, Sequences, FiniteSets, TLC

VARIABLES
    arkErrors,      \* format(): the raw failures handed to the formatter
    basePath,       \* format(): the basePath argument
    issues,         \* format(): what the last format(arkErrors, basePath) returned
    again,          \* format(): what a later format(arkErrors, basePath) returned
    otherIssues,    \* format(): what a format call on another input returned
    schema,         \* engine: the schema under validation
    engineConfig,   \* engine: the ValidationEngineConfig the engine was created with
    data,           \* engine: the value passed to validate / safeParse / parse
    outcome,        \* engine: per method, how its last call on `data` ended
    coreLog,        \* engine: the entries written to coreLogger (config.debug)
    definition,     \* factories: the factory call the schema is built by
    built,          \* factories: how the factory call ended
    middleware,     \* adapters: the validator middleware and the request it runs on
    effects,        \* adapters: what the middleware did on that request
    form,           \* resolver: the resolver and the form values it is called on
    resolved,       \* resolver: how the resolver call ended
    cache,          \* ValidationCache: the entries of the map, in insertion order
    now,            \* ValidationCache: Date.now()
    got,            \* ValidationCache: the last get call and what it returned
    stored,         \* ValidationCache: the arguments of the last set call made on it directly
    calls           \* withCache: the calls of the cached validators, in the order they started

vars == <<arkErrors, basePath, issues, again, otherIssues,
          schema, engineConfig, data, outcome, coreLog, definition, built,
          middleware, effects, form, resolved, cache, now, got, stored, calls>>

formatVars == <<arkErrors, basePath, issues, again, otherIssues>>
engineVars == <<schema, engineConfig, data, outcome, coreLog>>
factoryVars == <<definition, built>>
adapterVars == <<middleware, effects>>
resolverVars == <<form, resolved>>
cacheVars == <<cache, now, got, stored, calls>>

(***************************************************************************)
(* Bounds of the model.                                                    *)
(***************************************************************************)
\* longest raw-failure sequence drawn from the catalogue of failures
MaxFailures == 2

(***************************************************************************)
(* Optional values: `undefined` against a defined value.                   *)
(***************************************************************************)
undefined == [some |-> FALSE]
Some(v) == [some |-> TRUE, val |-> v]

\* obj[k] = v on a plain object
Put(obj, k, v) == [q \in (DOMAIN obj) \cup {k} |-> IF q = k THEN v ELSE obj[q]]
Has(obj, k) == k \in DOMAIN obj

\* path segments: a string key or an integer index, never coerced into each other
Key(s) == [key |-> s]
Index(i) == [index |-> i]

(***************************************************************************)
(* String primitives.                                                      *)
(***************************************************************************)
UpperChars == <<"A", "B", "C", "D", "E", "F", "G", "H", "I", "J", "K", "L", "M",
                "N", "O", "P", "Q", "R", "S", "T", "U", "V", "W", "X", "Y", "Z">>
LowerChars == <<"a", "b", "c", "d", "e", "f", "g", "h", "i", "j", "k", "l", "m",
                "n", "o", "p", "q", "r", "s", "t", "u", "v", "w", "x", "y", "z">>
DigitChars == <<"0", "1", "2", "3", "4", "5", "6", "7", "8", "9">>
Whitespace == {" ", "\t", "\n"}
\* the compound delimiter ArkType joins several rejections with
Bullet == "◦"

IsDigit(c) == \E i \in 1..Len(DigitChars) : DigitChars[i] = c
DigitValue(c) == (CHOOSE i \in 1..Len(DigitChars) : DigitChars[i] = c) - 1

LowerOf ==
    [c \in {UpperChars[k] : k \in 1..Len(UpperChars)} |->
        LowerChars[CHOOSE k \in 1..Len(UpperChars) : UpperChars[k] = c]]

\* String.prototype.toLowerCase
toLowerCase(s) ==
    [i \in 1..Len(s) |-> IF s[i] \in DOMAIN LowerOf THEN LowerOf[s[i]] ELSE s[i]]

\* sub occurs in s at position i
OccursAt(s, sub, i) ==
    /\ i >= 1
    /\ i + Len(sub) - 1 <= Len(s)
    /\ \A j \in 1..Len(sub) : s[i + j - 1] = sub[j]

\* String.prototype.includes
includes(s, sub) == \E i \in 1..(Len(s) + 1) : OccursAt(s, sub, i)

\* String.prototype.trim
trim(s) ==
    LET keep == {i \in 1..Len(s) : s[i] \notin Whitespace}
    IN IF keep = {} THEN <<>>
       ELSE LET lo == CHOOSE i \in keep : \A j \in keep : i <= j
                hi == CHOOSE i \in keep : \A j \in keep : j <= i
            IN SubSeq(s, lo, hi)

\* String.prototype.split on a one-character separator
RECURSIVE split(_, _)
split(s, sep) ==
    LET at == {i \in 1..Len(s) : s[i] = sep}
    IN IF at = {} THEN <<s>>
       ELSE LET first == CHOOSE i \in at : \A j \in at : i <= j
            IN <<SubSeq(s, 1, first - 1)>> \o split(SubSeq(s, first + 1, Len(s)), sep)

\* Number.parseInt(digits, 10) on a run of decimal digits
RECURSIVE parseInt(_)
parseInt(digits) ==
    IF Len(digits) = 0 THEN 0
    ELSE 10 * parseInt(SubSeq(digits, 1, Len(digits) - 1)) + DigitValue(digits[Len(digits)])

\* the longest run of digits of s that starts at position i
RECURSIVE DigitRun(_, _)
DigitRun(s, i) ==
    IF i <= Len(s) /\ IsDigit(s[i]) THEN <<s[i]>> \o DigitRun(s, i + 1) ELSE <<>>

\* s.match(/<prefix>(\d+)<suffix>/i)?.[1] for lower-case literal prefix and suffix:
\* the digits captured by the leftmost match, undefined when nothing matches
matchNumber(s, prefix, suffix) ==
    LET low == toLowerCase(s)
        hits == {i \in 1..Len(s) :
                    /\ OccursAt(low, prefix, i)
                    /\ Len(DigitRun(s, i + Len(prefix))) > 0
                    /\ OccursAt(low, suffix,
                                i + Len(prefix) + Len(DigitRun(s, i + Len(prefix))))}
    IN IF hits = {} THEN undefined
       ELSE LET first == CHOOSE i \in hits : \A j \in hits : i <= j
            IN Some(DigitRun(s, first + Len(prefix)))

(***************************************************************************)
(* The texts of the model: the keywords the formatter looks for, and the   *)
(* `expected` / `message` texts and input values of the raw failures.      *)
(***************************************************************************)
Keyword ==
      \* "email"
    [ email |-> <<"e", "m", "a", "i", "l">>,
      \* "url"
      url |-> <<"u", "r", "l">>,
      \* "uuid"
      uuid |-> <<"u", "u", "i", "d">>,
      \* "date"
      date |-> <<"d", "a", "t", "e">>,
      \* "json"
      json |-> <<"j", "s", "o", "n">>,
      \* "base64"
      base64 |-> <<"b", "a", "s", "e", "6", "4">>,
      \* "hex"
      hex |-> <<"h", "e", "x">>,
      \* "integer"
      integer |-> <<"i", "n", "t", "e", "g", "e", "r">>,
      \* "creditcard"
      creditcard |-> <<"c", "r", "e", "d", "i", "t", "c", "a", "r", "d">>,
      \* "credit card"
      credit_card |-> <<"c", "r", "e", "d", "i", "t", " ", "c", "a", "r", "d">>,
      \* "ip"
      ip |-> <<"i", "p">>,
      \* "v4"
      v4 |-> <<"v", "4">>,
      \* "v6"
      v6 |-> <<"v", "6">>,
      \* "must be at least"
      must_be_at_least |-> <<"m", "u", "s", "t", " ", "b", "e", " ", "a", "t", " ", "l", "e",
          "a", "s", "t">>,
      \* "must be at most"
      must_be_at_most |-> <<"m", "u", "s", "t", " ", "b", "e", " ", "a", "t", " ", "m", "o",
          "s", "t">>,
      \* "required"
      required |-> <<"r", "e", "q", "u", "i", "r", "e", "d">>,
      \* "character"
      character |-> <<"c", "h", "a", "r", "a", "c", "t", "e", "r">>,
      \* "uppercase"
      uppercase |-> <<"u", "p", "p", "e", "r", "c", "a", "s", "e">>,
      \* "lowercase"
      lowercase |-> <<"l", "o", "w", "e", "r", "c", "a", "s", "e">>,
      \* "number"
      number |-> <<"n", "u", "m", "b", "e", "r">>,
      \* "digit"
      digit |-> <<"d", "i", "g", "i", "t">>,
      \* "special"
      special |-> <<"s", "p", "e", "c", "i", "a", "l">>,
      \* "at least "
      at_least |-> <<"a", "t", " ", "l", "e", "a", "s", "t", " ">>,
      \* "at most "
      at_most |-> <<"a", "t", " ", "m", "o", "s", "t", " ">>,
      \* " character"
      sp_character |-> <<" ", "c", "h", "a", "r", "a", "c", "t", "e", "r">> ]

Text ==
      \* "at least 8 characters◦an uppercase letter◦a number"
    [ password3 |-> <<"a", "t", " ", "l", "e", "a", "s", "t", " ", "8", " ", "c", "h", "a",
          "r", "a", "c", "t", "e", "r", "s", "◦", "a", "n", " ", "u", "p", "p", "e", "r",
          "c", "a", "s", "e", " ", "l", "e", "t", "t", "e", "r", "◦", "a", " ", "n", "u",
          "m", "b", "e", "r">>,
      \* " ◦ "
      bullets |-> <<" ", "◦", " ">>,
      \* "Uppercase letter◦special character◦"
      upper_special |-> <<"U", "p", "p", "e", "r", "c", "a", "s", "e", " ", "l", "e", "t",
          "t", "e", "r", "◦", "s", "p", "e", "c", "i", "a", "l", " ", "c", "h", "a", "r",
          "a", "c", "t", "e", "r", "◦">>,
      \* "a letter◦a symbol"
      no_keyword |-> <<"a", " ", "l", "e", "t", "t", "e", "r", "◦", "a", " ", "s", "y", "m",
          "b", "o", "l">>,
      \* "an email address"
      email |-> <<"a", "n", " ", "e", "m", "a", "i", "l", " ", "a", "d", "d", "r", "e", "s",
          "s">>,
      \* "a UUID"
      uuid |-> <<"a", " ", "U", "U", "I", "D">>,
      \* "a string"
      string |-> <<"a", " ", "s", "t", "r", "i", "n", "g">>,
      \* "a URL string"
      url_string |-> <<"a", " ", "U", "R", "L", " ", "s", "t", "r", "i", "n", "g">>,
      \* "at least length 3"
      at_least_5_characters |-> <<"a", "t", " ", "l", "e", "a", "s", "t", " ", "5", " ", "c",
                                  "h", "a", "r", "a", "c", "t", "e", "r", "s">>,
      at_least_3 |-> <<"a", "t", " ", "l", "e", "a", "s", "t", " ", "l", "e", "n", "g", "t",
          "h", " ", "3">>,
      \* "at least length 8"
      at_least_8 |-> <<"a", "t", " ", "l", "e", "a", "s", "t", " ", "l", "e", "n", "g", "t",
          "h", " ", "8">>,
      \* "at most length 5"
      at_most_5 |-> <<"a", "t", " ", "m", "o", "s", "t", " ", "l", "e", "n", "g", "t", "h",
          " ", "5">>,
      \* "must be at least length 3 (was 2)"
      msg_at_least |-> <<"m", "u", "s", "t", " ", "b", "e", " ", "a", "t", " ", "l", "e",
          "a", "s", "t", " ", "l", "e", "n", "g", "t", "h", " ", "3", " ", "(", "w", "a",
          "s", " ", "2", ")">>,
      \* "must be at least length 8 (was 7)"
      msg_at_least_8 |-> <<"m", "u", "s", "t", " ", "b", "e", " ", "a", "t", " ", "l", "e",
          "a", "s", "t", " ", "l", "e", "n", "g", "t", "h", " ", "8", " ", "(", "w", "a",
          "s", " ", "7", ")">>,
      \* "must be at most length 5 (was 9)"
      msg_at_most |-> <<"m", "u", "s", "t", " ", "b", "e", " ", "a", "t", " ", "m", "o", "s",
          "t", " ", "l", "e", "n", "g", "t", "h", " ", "5", " ", "(", "w", "a", "s", " ",
          "9", ")">>,
      \* "must be a string (was a number)"
      msg_string |-> <<"m", "u", "s", "t", " ", "b", "e", " ", "a", " ", "s", "t", "r", "i",
          "n", "g", " ", "(", "w", "a", "s", " ", "a", " ", "n", "u", "m", "b", "e", "r",
          ")">>,
      \* "must be an email address (was "invalid")"
      msg_email |-> <<"m", "u", "s", "t", " ", "b", "e", " ", "a", "n", " ", "e", "m", "a",
          "i", "l", " ", "a", "d", "d", "r", "e", "s", "s", " ", "(", "w", "a", "s", " ",
          "\"", "i", "n", "v", "a", "l", "i", "d", "\"", ")">>,
      \* "must be a URL string (was "invalid")"
      msg_url |-> <<"m", "u", "s", "t", " ", "b", "e", " ", "a", " ", "U", "R", "L", " ",
          "s", "t", "r", "i", "n", "g", " ", "(", "w", "a", "s", " ", "\"", "i", "n", "v",
          "a", "l", "i", "d", "\"", ")">>,
      \* "test@example.com"
      val_email |-> <<"t", "e", "s", "t", "@", "e", "x", "a", "m", "p", "l", "e", ".", "c",
          "o", "m">>,
      \* "invalid"
      val_invalid |-> <<"i", "n", "v", "a", "l", "i", "d">>,
      \* "  padded@example.com "
      val_padded |-> <<" ", " ", "p", "a", "d", "d", "e", "d", "@", "e", "x", "a", "m", "p",
          "l", "e", ".", "c", "o", "m", " ">>,
      \* "https://example.com/hook"
      val_https |-> <<"h", "t", "t", "p", "s", ":", "/", "/", "e", "x", "a", "m", "p", "l",
          "e", ".", "c", "o", "m", "/", "h", "o", "o", "k">>,
      \* "http://example.com/hook"
      val_http |-> <<"h", "t", "t", "p", ":", "/", "/", "e", "x", "a", "m", "p", "l", "e",
          ".", "c", "o", "m", "/", "h", "o", "o", "k">>,
      \* "https://10.0.0.1/hook"
      val_private |-> <<"h", "t", "t", "p", "s", ":", "/", "/", "1", "0", ".", "0", ".", "0",
          ".", "1", "/", "h", "o", "o", "k">>,
      \* "https://localhost/hook"
      val_localhost |-> <<"h", "t", "t", "p", "s", ":", "/", "/", "l", "o", "c", "a", "l",
          "h", "o", "s", "t", "/", "h", "o", "o", "k">>,
      \* "https:"
      https |-> <<"h", "t", "t", "p", "s", ":">>,
      \* "://"
      scheme_sep |-> <<":", "/", "/">>,
      \* "localhost"
      localhost |-> <<"l", "o", "c", "a", "l", "h", "o", "s", "t">>,
      \* "127.0.0.1"
      loopback4 |-> <<"1", "2", "7", ".", "0", ".", "0", ".", "1">>,
      \* "::1"
      loopback6 |-> <<":", ":", "1">> ]

(***************************************************************************)
(* The error code taxonomy (ErrorCodes).                                   *)
(***************************************************************************)
ErrorCodes ==
    [ INVALID_TYPE |-> "invalid_type", REQUIRED |-> "required",
      UNEXPECTED_KEY |-> "unexpected_key",
      STRING_MIN |-> "string_min", STRING_MAX |-> "string_max",
      STRING_LENGTH |-> "string_length", STRING_PATTERN |-> "string_pattern",
      INVALID_EMAIL |-> "invalid_email", INVALID_URL |-> "invalid_url",
      INVALID_UUID |-> "invalid_uuid", INVALID_DATE |-> "invalid_date",
      INVALID_JSON |-> "invalid_json", INVALID_BASE64 |-> "invalid_base64",
      INVALID_HEX |-> "invalid_hex", INVALID_FORMAT |-> "invalid_format",
      NUMBER_MIN |-> "number_min", NUMBER_MAX |-> "number_max",
      NUMBER_RANGE |-> "number_range", NOT_INTEGER |-> "not_integer",
      NOT_POSITIVE |-> "not_positive", NOT_NEGATIVE |-> "not_negative",
      INVALID_DIVISOR |-> "invalid_divisor",
      ARRAY_MIN |-> "array_min", ARRAY_MAX |-> "array_max",
      ARRAY_LENGTH |-> "array_length", ARRAY_EMPTY |-> "array_empty",
      OBJECT_EMPTY |-> "object_empty",
      INVALID_PASSWORD |-> "invalid_password",
      PASSWORD_TOO_SHORT |-> "password_too_short",
      PASSWORD_NO_UPPERCASE |-> "password_no_uppercase",
      PASSWORD_NO_LOWERCASE |-> "password_no_lowercase",
      PASSWORD_NO_NUMBER |-> "password_no_number",
      PASSWORD_NO_SPECIAL |-> "password_no_special",
      PASSWORDS_DONT_MATCH |-> "passwords_dont_match",
      INVALID_CREDIT_CARD |-> "invalid_credit_card", INVALID_IBAN |-> "invalid_iban",
      INVALID_BIC |-> "invalid_bic", INVALID_CURRENCY |-> "invalid_currency",
      INVALID_PRICE |-> "invalid_price",
      INVALID_IP |-> "invalid_ip", INVALID_IPV4 |-> "invalid_ipv4",
      INVALID_IPV6 |-> "invalid_ipv6", INVALID_HOSTNAME |-> "invalid_hostname",
      INVALID_PORT |-> "invalid_port", INVALID_MAC |-> "invalid_mac",
      INVALID_PHONE |-> "invalid_phone", INVALID_SSN |-> "invalid_ssn",
      INVALID_POSTAL_CODE |-> "invalid_postal_code",
      CUSTOM |-> "custom", PREDICATE |-> "predicate", NARROW |-> "narrow" ]

(***************************************************************************)
(* DefaultErrorFormatter.  A raw failure (ArkTypeError) is a record whose  *)
(* optional fields code, expected, actual, path, message and rule are in   *)
(* its domain only when present.                                           *)
(***************************************************************************)

\* createIssue without the path.length > 0 test
createIssueKeepsPath(path, code, params) ==
    IF params.some
    THEN [path |-> path, code |-> code, params |-> params.val]
    ELSE [path |-> path, code |-> code]

\* createIssue: path is omitted when empty, params when undefined
createIssue(path, code, params) ==
    LET withPath == IF Len(path) > 0
                    THEN [path |-> path, code |-> code]
                    ELSE [code |-> code]
    IN IF params.some THEN Put(withPath, "params", params.val) ELSE withPath

\* mapErrorCodeFromExpected with every password rule mapped to the predicate code
mapErrorCodeFromExpectedPredicate(expected) ==
    IF includes(toLowerCase(expected), Keyword.character)
    THEN ErrorCodes.STRING_MIN
    ELSE ErrorCodes.PREDICATE

\* mapErrorCodeFromExpected: the code of one fragment of a compound failure
mapErrorCodeFromExpected(expected) ==
    LET lower == toLowerCase(expected)
    IN IF includes(lower, Keyword.character) THEN ErrorCodes.STRING_MIN
       ELSE IF includes(lower, Keyword.uppercase) THEN ErrorCodes.PASSWORD_NO_UPPERCASE
       ELSE IF includes(lower, Keyword.lowercase) THEN ErrorCodes.PASSWORD_NO_LOWERCASE
       ELSE IF includes(lower, Keyword.number) \/ includes(lower, Keyword.digit)
            THEN ErrorCodes.PASSWORD_NO_NUMBER
       ELSE IF includes(lower, Keyword.special) THEN ErrorCodes.PASSWORD_NO_SPECIAL
       ELSE ErrorCodes.PREDICATE

\* extractParamsFromExpected: /at least (\d+) character/i
extractParamsFromExpected(expected) ==
    LET minMatch == matchNumber(expected, Keyword.at_least, Keyword.sp_character)
    IN IF minMatch.some
       THEN Some([min |-> parseInt(minMatch.val)])
       ELSE undefined

\* the trimmed, non-empty fragments of a compound `expected`
fragments(expected) ==
    LET parts == split(expected, Bullet)
        trimmed == [i \in 1..Len(parts) |-> trim(parts[i])]
    IN SelectSeq(trimmed, LAMBDA s : Len(s) > 0)

\* splitCompoundError: one issue per fragment, [] when `expected` is not compound
splitCompoundError(error, path) ==
    LET expected == IF Has(error, "expected") THEN error.expected ELSE <<>>
    IN IF ~includes(expected, <<Bullet>>) THEN <<>>
       ELSE LET failures == fragments(expected)
            IN [i \in 1..Len(failures) |->
                   createIssue(path,
                               mapErrorCodeFromExpected(failures[i]),
                               extractParamsFromExpected(failures[i]))]

\* the last line of mapErrorCode without the engine's code
fallbackCodeIgnoresEngineCode(error) == ErrorCodes.INVALID_TYPE

\* the last line of mapErrorCode: error.code ?? ErrorCodes.INVALID_TYPE
fallbackCode(error) ==
    IF Has(error, "code") THEN error.code ELSE ErrorCodes.INVALID_TYPE

\* mapErrorCode: the code of a failure that is not split
mapErrorCode(error) ==
    LET expected == IF Has(error, "expected") THEN toLowerCase(error.expected) ELSE <<>>
        message == IF Has(error, "message") THEN toLowerCase(error.message) ELSE <<>>
        code == IF Has(error, "code") THEN Some(error.code) ELSE undefined
        codeIs(c) == code.some /\ code.val = c
    IN IF includes(expected, Keyword.email) THEN ErrorCodes.INVALID_EMAIL
       ELSE IF includes(expected, Keyword.url) THEN ErrorCodes.INVALID_URL
       ELSE IF includes(expected, Keyword.uuid) THEN ErrorCodes.INVALID_UUID
       ELSE IF includes(expected, Keyword.date) THEN ErrorCodes.INVALID_DATE
       ELSE IF includes(expected, Keyword.json) THEN ErrorCodes.INVALID_JSON
       ELSE IF includes(expected, Keyword.base64) THEN ErrorCodes.INVALID_BASE64
       ELSE IF includes(expected, Keyword.hex) THEN ErrorCodes.INVALID_HEX
       ELSE IF includes(expected, Keyword.integer) THEN ErrorCodes.NOT_INTEGER
       ELSE IF includes(expected, Keyword.creditcard)
               \/ includes(expected, Keyword.credit_card)
            THEN ErrorCodes.INVALID_CREDIT_CARD
       ELSE IF includes(expected, Keyword.ip)
            THEN IF includes(expected, Keyword.v4) THEN ErrorCodes.INVALID_IPV4
                 ELSE IF includes(expected, Keyword.v6) THEN ErrorCodes.INVALID_IPV6
                 ELSE ErrorCodes.INVALID_IP
       ELSE IF codeIs("minLength") \/ includes(message, Keyword.must_be_at_least)
            THEN ErrorCodes.STRING_MIN
       ELSE IF codeIs("maxLength") \/ includes(message, Keyword.must_be_at_most)
            THEN ErrorCodes.STRING_MAX
       ELSE IF codeIs("predicate") THEN ErrorCodes.PREDICATE
       ELSE IF codeIs("required") \/ expected = Keyword.required
            THEN ErrorCodes.REQUIRED
       ELSE fallbackCode(error)

\* JavaScript truthiness of a params entry that holds a number
Truthy(params, k) == Has(params, k) /\ params[k] # 0

\* the last line of extractParams without the Object.keys test
paramsEvenWhenEmpty(params) == Some(params)

\* the last line of extractParams: params, or undefined when it has no key
paramsOrUndefined(params) ==
    IF Cardinality(DOMAIN params) > 0 THEN Some(params) ELSE undefined

\* extractParams: the constraint params of a failure that is not split
extractParams(error, code) ==
    LET isMinCode == code \in {ErrorCodes.STRING_MIN, ErrorCodes.ARRAY_MIN,
                               ErrorCodes.NUMBER_MIN}
        isMaxCode == code \in {ErrorCodes.STRING_MAX, ErrorCodes.ARRAY_MAX,
                               ErrorCodes.NUMBER_MAX}
        p0 == <<>>
        \* constraint value from rule
        p1 == IF Has(error, "rule")
              THEN IF isMinCode THEN Put(p0, "min", error.rule)
                   ELSE IF isMaxCode THEN Put(p0, "max", error.rule)
                   ELSE p0
              ELSE p0
        hasExpected == Has(error, "expected") /\ Len(error.expected) > 0
        \* fallback: /at least (\d+)/i and /at most (\d+)/i on expected
        minMatch == IF hasExpected
                    THEN matchNumber(error.expected, Keyword.at_least, <<>>)
                    ELSE undefined
        p2 == IF minMatch.some /\ ~Truthy(p1, "min")
              THEN Put(p1, "min", parseInt(minMatch.val))
              ELSE p1
        maxMatch == IF hasExpected
                    THEN matchNumber(error.expected, Keyword.at_most, <<>>)
                    ELSE undefined
        p3 == IF maxMatch.some /\ ~Truthy(p2, "max")
              THEN Put(p2, "max", parseInt(maxMatch.val))
              ELSE p2
        \* expected type for type errors
        p4 == IF code = ErrorCodes.INVALID_TYPE /\ hasExpected
              THEN Put(p3, "expected", error.expected)
              ELSE p3
    IN paramsOrUndefined(p4)

\* the loop body of format with `continue` taken whenever expected holds the delimiter
formatErrorDropsEmptySplit(error, basePath_) ==
    LET path == basePath_ \o (IF Has(error, "path") THEN error.path ELSE <<>>)
        expected == IF Has(error, "expected") THEN error.expected ELSE <<>>
        code == mapErrorCode(error)
    IN IF includes(expected, <<Bullet>>)
       THEN splitCompoundError(error, path)
       ELSE <<createIssue(path, code, extractParams(error, code))>>

\* the loop body of format: the issues pushed for one raw failure
formatError(error, basePath_) ==
    LET path == basePath_ \o (IF Has(error, "path") THEN error.path ELSE <<>>)
        splitIssues == splitCompoundError(error, path)
    IN IF Len(splitIssues) > 0
       THEN splitIssues
       ELSE LET code == mapErrorCode(error)
                params == extractParams(error, code)
            IN <<createIssue(path, code, params)>>

\* the loop of format: the issues pushed for arkErrors, in order
RECURSIVE formatLoop(_, _)
formatLoop(arkErrors_, basePath_) ==
    IF Len(arkErrors_) = 0 THEN <<>>
    ELSE formatLoop(SubSeq(arkErrors_, 1, Len(arkErrors_) - 1), basePath_)
         \o formatError(arkErrors_[Len(arkErrors_)], basePath_)

\* format with the `issues` array kept on the instance between calls
formatKeepsIssues(arkErrors_, basePath_) ==
    (IF issues.some THEN issues.val ELSE <<>>) \o formatLoop(arkErrors_, basePath_)

\* format(arkErrors, basePath): a fresh `issues` array on every call
format(arkErrors_, basePath_) == formatLoop(arkErrors_, basePath_)

(***************************************************************************)
(* Raw failures the schema engine can hand to the formatter.               *)
(***************************************************************************)
Optional(S) == {undefined} \cup {Some(x) : x \in S}

\* an ArkTypeError with the given optional fields
RawFailure(path, expected, code, message, rule) ==
    LET f0 == <<>>
        f1 == IF path.some THEN Put(f0, "path", path.val) ELSE f0
        f2 == IF expected.some THEN Put(f1, "expected", expected.val) ELSE f1
        f3 == IF code.some THEN Put(f2, "code", code.val) ELSE f2
        f4 == IF message.some THEN Put(f3, "message", message.val) ELSE f3
    IN IF rule.some THEN Put(f4, "rule", rule.val) ELSE f4

Paths == {<<>>, <<Key("items"), Index(0)>>}
Expecteds == {Text.password3, Text.bullets, Text.email, Text.string, Text.at_least_3,
              Text.at_least_5_characters}
EngineCodes == {"predicate", "minLength", "domain"}
Messages == {Text.msg_at_most}
Rules == {0, 3}

\* every combination of present and absent optional fields
RawFailures ==
    {RawFailure(p, e, c, m, r) :
        p \in Optional(Paths), e \in Optional(Expecteds), c \in Optional(EngineCodes),
        m \in Optional(Messages), r \in Optional(Rules)}

\* failures as ArkType reports them for schemas of the library
Catalogue ==
    { [path |-> <<Key("password")>>, code |-> "predicate", expected |-> Text.password3,
       actual |-> "abc"],
      [path |-> <<Key("password")>>, code |-> "predicate",
       expected |-> Text.upper_special, actual |-> "abc"],
      [path |-> <<>>, code |-> "predicate", expected |-> Text.no_keyword],
      [path |-> <<Key("email")>>, code |-> "pattern", expected |-> Text.email,
       actual |-> "invalid", message |-> Text.msg_email],
      [path |-> <<>>, code |-> "minLength", expected |-> Text.at_least_3, rule |-> 3,
       message |-> Text.msg_at_least],
      [path |-> <<Key("items"), Index(0)>>, code |-> "domain", expected |-> Text.string,
       message |-> Text.msg_string],
      [path |-> <<>>, code |-> "pattern", expected |-> Text.uuid],
      [expected |-> Text.bullets] }

SeqsUpTo(S, n) == UNION {[1..k -> S] : k \in 0..n}

FormatInputs == {<<f>> : f \in RawFailures} \cup SeqsUpTo(Catalogue, MaxFailures)
BasePaths == {<<>>, <<Key("user")>>}
\* a raw failure sequence formatted by other calls on the same formatter
OtherInputs ==
    {<<[path |-> <<>>, code |-> "maxLength", expected |-> Text.at_most_5, rule |-> 5,
        message |-> Text.msg_at_most]>>}

(***************************************************************************)
(* The formatter as a state machine: format is called on (arkErrors,       *)
(* basePath), then again on the same input, with calls on other inputs at  *)
(* any point, all on one instance (DefaultErrorFormatter has no fields;    *)
(* defaultErrorFormatter is one shared instance of it).                    *)
(***************************************************************************)
\* the first format(arkErrors, basePath)
Format ==
    /\ ~issues.some
    /\ issues' = Some(format(arkErrors, basePath))
    /\ UNCHANGED <<arkErrors, basePath, again, otherIssues>>
    /\ UNCHANGED engineVars
    /\ UNCHANGED factoryVars
    /\ UNCHANGED adapterVars
    /\ UNCHANGED resolverVars
    /\ UNCHANGED cacheVars

\* format(arkErrors, basePath) once more
FormatAgain ==
    /\ issues.some
    /\ again' = Some(format(arkErrors, basePath))
    /\ UNCHANGED <<arkErrors, basePath, issues, otherIssues>>
    /\ UNCHANGED engineVars
    /\ UNCHANGED factoryVars
    /\ UNCHANGED adapterVars
    /\ UNCHANGED resolverVars
    /\ UNCHANGED cacheVars

\* format on another raw failure sequence
FormatOther ==
    \E other \in OtherInputs :
        /\ otherIssues' = Some(format(other, basePath))
        /\ UNCHANGED <<arkErrors, basePath, issues, again>>
        /\ UNCHANGED engineVars
    /\ UNCHANGED factoryVars
    /\ UNCHANGED adapterVars
    /\ UNCHANGED resolverVars
    /\ UNCHANGED cacheVars

(***************************************************************************)
(* The schema engine (ArkType) at its interface: invoking a type on a      *)
(* value gives the accepted, possibly morphed, value or a non-empty        *)
(* collection of raw failures; an exception thrown inside a morph          *)
(* (.pipe) propagates to the caller.                                       *)
(***************************************************************************)
Str(chars) == [type |-> "string", chars |-> chars]
Num(n) == [type |-> "number", n |-> n]

Values == {Str(Text.val_email), Str(Text.val_invalid), Str(Text.val_padded),
           Str(Text.val_https), Str(Text.val_http), Str(Text.val_private),
           Str(Text.val_localhost), Num(42)}

Accepted(value) == [kind |-> "data", data |-> value]
Rejected(errors) == [kind |-> "errors", errors |-> errors]
Thrown(message) == [kind |-> "throw", error |-> [name |-> "Error", message |-> message]]

IndexOf(s, sub) ==
    LET hits == {i \in 1..(Len(s) + 1) : OccursAt(s, sub, i)}
    IN IF hits = {} THEN 0 ELSE CHOOSE i \in hits : \A j \in hits : i <= j

\* string.email: local@domain.tld
IsEmail(s) ==
    LET at == IndexOf(s, <<"@">>)
    IN /\ at > 1
       /\ ~\E i \in 1..Len(s) : s[i] \in Whitespace
       /\ \E i \in (at + 2)..(Len(s) - 1) : s[i] = "."

\* string.url: new URL(s) succeeds
IsUrl(s) == IndexOf(s, Text.scheme_sep) > 1

\* new URL(url): protocol and hostname of scheme://hostname/path
URL(url) ==
    LET sep == IndexOf(url, Text.scheme_sep)
        rest == SubSeq(url, sep + 3, Len(url))
        slash == IndexOf(rest, <<"/">>)
    IN [protocol |-> SubSeq(url, 1, sep),
        hostname |-> IF slash = 0 THEN rest ELSE SubSeq(rest, 1, slash - 1)]

\* isPrivateHost: localhost, loopback, RFC 1918 ranges and link-local metadata
isPrivateHost(host) ==
    IF host \in {Text.localhost, Text.loopback4, Text.loopback6} THEN TRUE
    ELSE LET parts == split(host, ".")
             quad == /\ Len(parts) = 4
                     /\ \A i \in 1..4 :
                           /\ Len(parts[i]) \in 1..3
                           /\ \A j \in 1..Len(parts[i]) : IsDigit(parts[i][j])
         IN IF ~quad THEN FALSE
            ELSE LET a == parseInt(parts[1])
                     b == parseInt(parts[2])
                 IN \/ a = 10
                    \/ (a = 172 /\ b >= 16 /\ b <= 31)
                    \/ (a = 192 /\ b = 168)
                    \/ (a = 169 /\ b = 254)

\* the morph of safeWebhookUrl: returns the url or throws
safeWebhookMorph(url) ==
    LET parsed == URL(url)
    IN IF parsed.protocol # Text.https THEN Thrown("HTTPS required")
       ELSE IF isPrivateHost(parsed.hostname) THEN Thrown("Private hosts blocked")
       ELSE Accepted(Str(url))

NotAString ==
    [path |-> <<>>, code |-> "domain", expected |-> Text.string, actual |-> "a number",
     message |-> Text.msg_string]

Returned(value) == [kind |-> "return", value |-> value]

(***************************************************************************)
(* Schema factories of the library: createPasswordSchema, createApiKey and *)
(* an object schema.  `definition` holds the arguments of the factory call *)
(* the schema under validation was built by.                               *)
(***************************************************************************)
SchemaText ==
      \* "at least "
    [ at_least |-> <<"a", "t", " ", "l", "e", "a", "s", "t", " ">>,
      \* " characters"
      characters |-> <<" ", "c", "h", "a", "r", "a", "c", "t", "e", "r", "s">>,
      \* "uppercase letter"
      uppercase_letter |-> <<"u", "p", "p", "e", "r", "c", "a", "s", "e", " ", "l", "e", "t",
          "t", "e", "r">>,
      \* "lowercase letter"
      lowercase_letter |-> <<"l", "o", "w", "e", "r", "c", "a", "s", "e", " ", "l", "e", "t",
          "t", "e", "r">>,
      \* "number"
      number |-> <<"n", "u", "m", "b", "e", "r">>,
      \* "special character"
      special_character |-> <<"s", "p", "e", "c", "i", "a", "l", " ", "c", "h", "a", "r",
          "a", "c", "t", "e", "r">>,
      \* "must be "
      must_be |-> <<"m", "u", "s", "t", " ", "b", "e", " ">>,
      \* " (was "
      was |-> <<" ", "(", "w", "a", "s", " ">>,
      \* ")"
      close |-> <<")">>,
      \* "must be..."
      must_be_more |-> <<"m", "u", "s", "t", " ", "b", "e", ".", ".", ".">>,
      \* "  ◦ "
      intersection_head |-> <<" ", " ", "◦", " ">>,
      \* "\n  ◦ "
      intersection_sep |-> <<"\n", " ", " ", "◦", " ">>,
      \* "a string"
      a_string |-> <<"a", " ", "s", "t", "r", "i", "n", "g">>,
      \* "an email address"
      an_email |-> <<"a", "n", " ", "e", "m", "a", "i", "l", " ", "a", "d", "d", "r", "e",
          "s", "s">>,
      \* "non-negative"
      non_negative |-> <<"n", "o", "n", "-", "n", "e", "g", "a", "t", "i", "v", "e">>,
      \* "matched by ^"
      matched_by |-> <<"m", "a", "t", "c", "h", "e", "d", " ", "b", "y", " ", "^">>,
      \* "_[A-Za-z0-9]{32,}$"
      key_pattern |-> <<"_", "[", "A", "-", "Z", "a", "-", "z", "0", "-", "9", "]", "{", "3",
          "2", ",", "}", "$">>,
      \* "abc"
      abc |-> <<"a", "b", "c">>,
      \* "abcdefgh"
      abcdefgh |-> <<"a", "b", "c", "d", "e", "f", "g", "h">>,
      \* "ABCDEFGH"
      ABCDEFGH |-> <<"A", "B", "C", "D", "E", "F", "G", "H">>,
      \* "Abcdefgh"
      Abcdefgh |-> <<"A", "b", "c", "d", "e", "f", "g", "h">>,
      \* "abcdefg1"
      abcdefg1 |-> <<"a", "b", "c", "d", "e", "f", "g", "1">>,
      \* "Abcdefg1"
      Abcdefg1 |-> <<"A", "b", "c", "d", "e", "f", "g", "1">>,
      \* "Abc1"
      Abc1 |-> <<"A", "b", "c", "1">>,
      \* "Abcdef1!"
      Abcdef1x |-> <<"A", "b", "c", "d", "e", "f", "1", "!">>,
      \* "abc!"
      abcx |-> <<"a", "b", "c", "!">>,
      \* "!@#$%^&*(),.?":{}|<>"
      specials |-> <<"!", "@", "#", "$", "%", "^", "&", "*", "(", ")", ",", ".", "?", "\"",
          ":", "{", "}", "|", "<", ">">>,
      \* "sk"
      sk |-> <<"s", "k">>,
      \* "prod"
      prod |-> <<"p", "r", "o", "d">>,
      \* "stripe"
      stripe |-> <<"s", "t", "r", "i", "p", "e">>,
      \* "API_KEY_V2"
      API_KEY_V2 |-> <<"A", "P", "I", "_", "K", "E", "Y", "_", "V", "2">>,
      \* ".*"
      dot_star |-> <<".", "*">>,
      \* "a+b"
      a_plus_b |-> <<"a", "+", "b">>,
      \* ""
      empty |-> <<>>,
      \* "invalid"
      invalid |-> <<"i", "n", "v", "a", "l", "i", "d">>,
      \* "user@example.com"
      user_at |-> <<"u", "s", "e", "r", "@", "e", "x", "a", "m", "p", "l", "e", ".", "c",
          "o", "m">>,
      \* "email"
      email |-> <<"e", "m", "a", "i", "l">>,
      \* "age"
      age |-> <<"a", "g", "e">>,
      \* "an object"
      an_object |-> <<"a", "n", " ", "o", "b", "j", "e", "c", "t">> ]

\* String(n) of an integer
RECURSIVE digits(_)
digits(n) ==
    IF n < 10 THEN <<DigitChars[n + 1]>>
    ELSE digits(n \div 10) \o <<DigitChars[(n % 10) + 1]>>

toString(n) == IF n < 0 THEN <<"-">> \o digits(0 - n) ELSE digits(n)

\* how the engine prints a value in `actual`
printable(value) ==
    IF value.type = "string" THEN <<"\"">> \o value.chars \o <<"\"">>
    ELSE IF value.type = "number" THEN toString(value.n)
    ELSE SchemaText.an_object

repeat(c, n) == [i \in 1..n |-> c]
Chars(s) == {s[i] : i \in 1..Len(s)}

\* the message of an engine error at a path: `<path> must be <expected> (was <actual>)`
problemMessage(prop, expected, actual) ==
    (IF Len(prop) > 0 THEN prop \o <<" ">> ELSE <<>>)
    \o SchemaText.must_be \o expected \o SchemaText.was \o actual \o SchemaText.close

\* createPasswordSchema: the defaults of PasswordRequirements
DefaultPasswordRequirements ==
    [minLength |-> 8, requireUppercase |-> TRUE, requireLowercase |-> TRUE,
     requireNumbers |-> TRUE, requireSpecialChars |-> FALSE, failFast |-> FALSE]

\* createPasswordSchema: destructuring of options with defaults
passwordRequirements(options) ==
    [k \in DOMAIN DefaultPasswordRequirements |->
        IF Has(options, k) THEN options[k] ELSE DefaultPasswordRequirements[k]]

\* createPasswordSchema: the rules array, given the requirements
rulesFor(o) ==
       <<[check |-> "length", minLength |-> o.minLength,
          expected |-> SchemaText.at_least \o toString(o.minLength)
                       \o SchemaText.characters]>>
       \o (IF o.requireUppercase
           THEN <<[check |-> "uppercase", expected |-> SchemaText.uppercase_letter]>>
           ELSE <<>>)
       \o (IF o.requireLowercase
           THEN <<[check |-> "lowercase", expected |-> SchemaText.lowercase_letter]>>
           ELSE <<>>)
       \o (IF o.requireNumbers
           THEN <<[check |-> "number", expected |-> SchemaText.number]>>
           ELSE <<>>)
       \o (IF o.requireSpecialChars
           THEN <<[check |-> "special", expected |-> SchemaText.special_character]>>
           ELSE <<>>)

\* createPasswordSchema: the rules array
rules(options) == rulesFor(passwordRequirements(options))

\* rule.check(password)
check(rule, password) ==
    CASE rule.check = "length" -> Len(password) >= rule.minLength
      [] rule.check = "uppercase" -> \E i \in 1..Len(password) : password[i] \in Chars(UpperChars)
      [] rule.check = "lowercase" -> \E i \in 1..Len(password) : password[i] \in Chars(LowerChars)
      [] rule.check = "number" -> \E i \in 1..Len(password) : password[i] \in Chars(DigitChars)
      [] rule.check = "special" ->
            \E i \in 1..Len(password) : password[i] \in Chars(SchemaText.specials)

\* `if (failFast) return false`: the narrow callback stops at its first rejection
untilFailFast(failFast, failing) ==
    IF failFast /\ Len(failing) > 0 THEN <<failing[1]>> ELSE failing

\* the narrow callback without the failFast return
rejectsIgnoringFailFast(options, password) ==
    SelectSeq(rules(options), LAMBDA rule : ~check(rule, password))

\* the narrow callback of createPasswordSchema: the rules it rejects, in order
rejects(options, password) ==
    untilFailFast(passwordRequirements(options).failFast,
                  SelectSeq(rules(options), LAMBDA rule : ~check(rule, password)))

\* ctx.reject({expected}): a predicate error at the root
predicateError(expected, actual) ==
    [path |-> <<>>, code |-> "predicate", expected |-> expected, actual |-> actual,
     message |-> problemMessage(<<>>, expected, actual)]

RECURSIVE joinExpected(_)
joinExpected(errors) ==
    IF Len(errors) = 0 THEN <<>>
    ELSE IF Len(errors) = 1 THEN errors[1].expected
    ELSE joinExpected(SubSeq(errors, 1, Len(errors) - 1))
         \o SchemaText.intersection_sep \o errors[Len(errors)].expected

\* the intersection error with the bulleted `expected`
intersectionOf(expected, actual) ==
    [path |-> <<>>, code |-> "intersection", expected |-> expected, actual |-> actual,
     message |-> <<"(">> \o actual \o <<")", " ">> \o SchemaText.must_be_more
                 \o <<"\n">> \o expected]

\* several ctx.reject at one path: the engine keeps one error whose `expected`
\* lists them as bullets
intersectionError(errors, actual) ==
    intersectionOf(SchemaText.intersection_head \o joinExpected(errors), actual)

\* the engine's result for the rules the narrow callback rejected: a predicate
\* error for one, an intersection error for several
rejected(errors, actual) ==
    IF Len(errors) = 1 THEN Rejected(errors)
    ELSE Rejected(<<intersectionError(errors, actual)>>)

rejection(failing, value, actual) ==
    IF Len(failing) = 0 THEN Accepted(value)
    ELSE rejected([i \in 1..Len(failing) |-> predicateError(failing[i].expected, actual)],
                  actual)

\* type('string').narrow(...) of createPasswordSchema, applied to a value
passwordArkType(options, value) ==
    IF value.type # "string" THEN Rejected(<<NotAString>>)
    ELSE rejection(rejects(options, value.chars), value, printable(value))

\* the shortest run of alphanumerics after the prefix: {32,}
KeyLength == 32

WordChars == Chars(UpperChars) \cup Chars(LowerChars) \cup Chars(DigitChars) \cup {"_"}
AlphaNumerics == Chars(UpperChars) \cup Chars(LowerChars) \cup Chars(DigitChars)

\* /^[a-zA-Z0-9_]+$/.test(prefix)
isWordPrefix(prefix) ==
    Len(prefix) > 0 /\ \A i \in 1..Len(prefix) : prefix[i] \in WordChars

\* new RegExp(`^${prefix}_[A-Za-z0-9]{32,}$`).test(s), for a prefix of word characters
keyPatternTest(prefix, s) ==
    LET rest == SubSeq(s, Len(prefix) + 2, Len(s))
    IN /\ Len(s) >= Len(prefix) + 1 + KeyLength
       /\ SubSeq(s, 1, Len(prefix)) = prefix
       /\ s[Len(prefix) + 1] = "_"
       /\ \A i \in 1..Len(rest) : rest[i] \in AlphaNumerics

\* createApiKey without the test of the prefix
createApiKeyUnchecked(prefix) == Returned("createApiKey")

\* createApiKey / apiKeyWithPrefix: throws on a prefix that is not made of word
\* characters, else returns the schema
createApiKey(prefix) ==
    IF ~isWordPrefix(prefix)
    THEN Thrown("API key prefix must contain only alphanumeric characters or underscores")
    ELSE Returned("createApiKey")

\* type(new RegExp(...)) of createApiKey, applied to a value
apiKeyArkType(prefix, value) ==
    IF value.type # "string" THEN Rejected(<<NotAString>>)
    ELSE IF keyPatternTest(prefix, value.chars) THEN Accepted(value)
    ELSE LET expected == SchemaText.matched_by \o prefix \o SchemaText.key_pattern
         IN Rejected(<<[path |-> <<>>, code |-> "pattern", expected |-> expected,
                        actual |-> printable(value),
                        message |-> problemMessage(<<>>, expected, printable(value))]>>)

Obj(fields) == [type |-> "object", fields |-> fields]

\* how the engine describes the bound of `number >= min`
atLeast(min) ==
    IF min = 0 THEN SchemaText.non_negative ELSE SchemaText.at_least \o toString(min)

\* the errors of one property of {email: 'string.email', age: 'number >= min'}
propErrors(prop, min, value) ==
    IF prop = "email"
    THEN IF value.type = "string" /\ IsEmail(value.chars) THEN <<>>
         ELSE <<[path |-> <<Key("email")>>, code |-> "pattern",
                 expected |-> SchemaText.an_email, actual |-> printable(value),
                 message |-> problemMessage(SchemaText.email, SchemaText.an_email,
                                            printable(value))]>>
    ELSE IF value.type = "number" /\ value.n >= min THEN <<>>
         ELSE <<[path |-> <<Key("age")>>, code |-> "min", rule |-> min,
                 expected |-> atLeast(min), actual |-> printable(value),
                 message |-> problemMessage(SchemaText.age, atLeast(min),
                                            printable(value))]>>

\* the value, or the errors when there are some
acceptedUnless(errors, value) == IF Len(errors) = 0 THEN Accepted(value) ELSE Rejected(errors)

\* type({email: 'string.email', age: 'number >= min'}) applied to a value; the
\* properties are visited in the order `order`
objectArkType(min, order, value) ==
    IF value.type # "object"
    THEN Rejected(<<[path |-> <<>>, code |-> "domain", expected |-> SchemaText.an_object,
                     actual |-> printable(value),
                     message |-> problemMessage(<<>>, SchemaText.an_object,
                                                printable(value))]>>)
    ELSE acceptedUnless(propErrors(order[1], min, value.fields[order[1]])
                        \o propErrors(order[2], min, value.fields[order[2]]), value)

\* the arkType of the schema built from `definition`
factoryArkType(schema_, value) ==
    CASE schema_ = "createPasswordSchema" -> passwordArkType(definition.options, value)
      [] schema_ = "createApiKey" -> apiKeyArkType(definition.prefix, value)
      [] schema_ = "object" -> objectArkType(definition.min, definition.order, value)

FactorySchemas == {"createPasswordSchema", "createApiKey", "object"}

Schemas == {"authEmail", "passwordBasic", "trim", "safeWebhookUrl"}

\* arkType(data) for the schemas above
ArkType(schema_, value) ==
    IF schema_ \in FactorySchemas THEN factoryArkType(schema_, value)
    ELSE IF schema_ = "form" THEN form.arkType
    ELSE IF value.type # "string" THEN Rejected(<<NotAString>>)
    ELSE CASE schema_ = "authEmail" ->
                IF IsEmail(value.chars) THEN Accepted(value)
                ELSE Rejected(<<[path |-> <<>>, code |-> "pattern",
                                 expected |-> Text.email, actual |-> "string",
                                 message |-> Text.msg_email]>>)
           [] schema_ = "passwordBasic" ->
                IF Len(value.chars) >= 8 THEN Accepted(value)
                ELSE Rejected(<<[path |-> <<>>, code |-> "minLength",
                                 expected |-> Text.at_least_8, actual |-> "7",
                                 rule |-> 8, message |-> Text.msg_at_least_8]>>)
           [] schema_ = "trim" -> Accepted(Str(trim(value.chars)))
           [] schema_ = "safeWebhookUrl" ->
                IF IsUrl(value.chars) THEN safeWebhookMorph(value.chars)
                ELSE Rejected(<<[path |-> <<>>, code |-> "predicate",
                                 expected |-> Text.url_string, actual |-> "string",
                                 message |-> Text.msg_url]>>)

(***************************************************************************)
(* createValidationEngine / createSchema.                                  *)
(***************************************************************************)
\* config.errorFormatter: absent (the DefaultErrorFormatter is used) or a custom
\* ErrorFormatter, given by the issues its format() returns
CustomFormatters == {[returns |-> <<>>], [returns |-> <<[code |-> ErrorCodes.CUSTOM]>>]}
EngineConfigs == [debug : BOOLEAN, errorFormatter : Optional(CustomFormatters)]

\* errorFormatter.format(result) of the engine created with config
errorFormatterFormat(config, errors) ==
    IF config.errorFormatter.some
    THEN config.errorFormatter.val.returns
    ELSE format(errors, <<>>)

\* validate returning its argument instead of the engine's result
validateReturnsInput(schema_, config, data_) ==
    LET result == ArkType(schema_, data_)
    IN IF result.kind = "throw" THEN result
       ELSE IF result.kind = "errors"
       THEN Returned([success |-> FALSE,
                      issues |-> errorFormatterFormat(config, result.errors)])
       ELSE Returned([success |-> TRUE, data |-> data_])

\* validate, given the result of arkType(data)
validationResult(config, result) ==
    IF result.kind = "throw" THEN result
    ELSE IF result.kind = "errors"
    THEN Returned([success |-> FALSE,
                   issues |-> errorFormatterFormat(config, result.errors)])
    ELSE Returned([success |-> TRUE, data |-> result.data])

\* schema.validate(data)
validate(schema_, config, data_) == validationResult(config, ArkType(schema_, data_))

\* new ValidationError(issues): summary is the codes, joined with ", "
ValidationError(issues_) ==
    [name |-> "ValidationError",
     summary |-> [i \in 1..Len(issues_) |-> issues_[i].code],
     issues |-> issues_]

\* parse that formats the failures itself instead of throwing validate's issues
parseFormatsAgain(schema_, config, data_) ==
    LET result == validate(schema_, config, data_)
    IN IF result.kind = "throw" THEN result
       ELSE IF ~result.value.success
       THEN [kind |-> "throw",
             error |-> ValidationError(format(ArkType(schema_, data_).errors, <<>>))]
       ELSE Returned(result.value.data)

\* parse, given the result of validate(data)
dataOrThrow(result) ==
    IF result.kind = "throw" THEN result
    ELSE IF ~result.value.success
    THEN [kind |-> "throw", error |-> ValidationError(result.value.issues)]
    ELSE Returned(result.value.data)

\* schema.parse(data)
parse(schema_, config, data_) == dataOrThrow(validate(schema_, config, data_))

\* schema.safeParse(data)
safeParse(schema_, config, data_) == validate(schema_, config, data_)

NotCalled == [kind |-> "none"]

\* coreLogger.info('Validation failed', ...) of validate, when config.debug is set
\* (the library's schemas carry no meta.name)
debugLog(schema_, config, data_) ==
    IF config.debug /\ ArkType(schema_, data_).kind = "errors"
    THEN {[message |-> "Validation failed", schema |-> "anonymous"]}
    ELSE {}

Validate ==
    /\ outcome' = [outcome EXCEPT !.validate = validate(schema, engineConfig, data)]
    /\ coreLog' = coreLog \cup debugLog(schema, engineConfig, data)
    /\ UNCHANGED <<schema, engineConfig, data>>
    /\ UNCHANGED formatVars
    /\ UNCHANGED factoryVars
    /\ UNCHANGED adapterVars
    /\ UNCHANGED resolverVars
    /\ UNCHANGED cacheVars

SafeParse ==
    /\ outcome' = [outcome EXCEPT !.safeParse = safeParse(schema, engineConfig, data)]
    /\ coreLog' = coreLog \cup debugLog(schema, engineConfig, data)
    /\ UNCHANGED <<schema, engineConfig, data>>
    /\ UNCHANGED formatVars
    /\ UNCHANGED factoryVars
    /\ UNCHANGED adapterVars
    /\ UNCHANGED resolverVars
    /\ UNCHANGED cacheVars

Parse ==
    /\ outcome' = [outcome EXCEPT !.parse = parse(schema, engineConfig, data)]
    /\ coreLog' = coreLog \cup debugLog(schema, engineConfig, data)
    /\ UNCHANGED <<schema, engineConfig, data>>
    /\ UNCHANGED formatVars
    /\ UNCHANGED factoryVars
    /\ UNCHANGED adapterVars
    /\ UNCHANGED resolverVars
    /\ UNCHANGED cacheVars

(***************************************************************************)
(* Specifications.                                                         *)
(***************************************************************************)
FormatIdle ==
    /\ arkErrors = <<>>
    /\ basePath = <<>>
    /\ issues = undefined
    /\ again = undefined
    /\ otherIssues = undefined

EngineIdle ==
    /\ schema = "authEmail"
    /\ engineConfig = [debug |-> FALSE, errorFormatter |-> undefined]
    /\ data = Num(42)
    /\ outcome = [validate |-> NotCalled, safeParse |-> NotCalled, parse |-> NotCalled]
    /\ coreLog = {}

FactoryIdle ==
    /\ definition = [name |-> "none"]
    /\ built = NotCalled

AdapterIdle ==
    /\ middleware = [adapter |-> "none"]
    /\ effects = NotCalled

ResolverIdle ==
    /\ form = [schema |-> "none"]
    /\ resolved = NotCalled

CacheIdle ==
    /\ cache = <<>>
    /\ now = 0
    /\ got = NotCalled
    /\ stored = NotCalled
    /\ calls = <<>>

\* the schema wrapper: one schema, one value, its three methods called in any order
Init ==
    /\ schema \in Schemas
    /\ engineConfig \in EngineConfigs
    /\ data \in Values
    /\ outcome = [validate |-> NotCalled, safeParse |-> NotCalled, parse |-> NotCalled]
    /\ coreLog = {}
    /\ FormatIdle
    /\ FactoryIdle
    /\ AdapterIdle
    /\ ResolverIdle
    /\ CacheIdle

Next == Validate \/ SafeParse \/ Parse

Spec == Init /\ [][Next]_vars

\* the formatter alone, on every raw failure sequence of the bounded input space
InitFormat ==
    /\ arkErrors \in FormatInputs
    /\ basePath \in BasePaths
    /\ issues = undefined
    /\ again = undefined
    /\ otherIssues = undefined
    /\ EngineIdle
    /\ FactoryIdle
    /\ AdapterIdle
    /\ ResolverIdle
    /\ CacheIdle

NextFormat == Format \/ FormatAgain \/ FormatOther

SpecFormat == InitFormat /\ [][NextFormat]_vars

(***************************************************************************)
(* The schema factories: a factory call, then the methods of the schema it *)
(* returned, on one value.                                                 *)
(***************************************************************************)
MinLengths == {4, 8}

PasswordOptions ==
    {<<>>, [failFast |-> TRUE], [requireSpecialChars |-> TRUE]}
    \cup [minLength : MinLengths, requireUppercase : BOOLEAN, requireLowercase : BOOLEAN,
          requireNumbers : BOOLEAN, requireSpecialChars : BOOLEAN, failFast : BOOLEAN]

Passwords ==
    {Str(SchemaText.abc), Str(SchemaText.abcdefgh), Str(SchemaText.ABCDEFGH),
     Str(SchemaText.Abcdefgh), Str(SchemaText.abcdefg1), Str(SchemaText.Abcdefg1),
     Str(SchemaText.Abc1), Str(SchemaText.Abcdef1x), Str(SchemaText.abcx), Num(42)}

Prefixes ==
    {SchemaText.sk, SchemaText.prod, SchemaText.stripe, SchemaText.API_KEY_V2,
     SchemaText.dot_star, SchemaText.a_plus_b, SchemaText.empty}

\* keys for a prefix: well-formed, one character short, another prefix, a bad character
Keys(prefix) ==
    {Str(prefix \o <<"_">> \o repeat("A", KeyLength)),
     Str(prefix \o <<"_">> \o repeat("A", KeyLength) \o <<"b", "7">>),
     Str(prefix \o <<"_">> \o repeat("A", KeyLength - 1)),
     Str(SchemaText.sk \o <<"_">> \o repeat("A", KeyLength)),
     Str(SchemaText.prod \o <<"_">> \o repeat("A", KeyLength)),
     Str(prefix \o <<"_">> \o repeat("A", KeyLength) \o <<"-">>),
     Num(42)}

LowerBounds == {0, 18}
Ages == {0 - 5, 3, 20}
Emails == {SchemaText.invalid, SchemaText.user_at}
PropOrders == {<<"email", "age">>, <<"age", "email">>}

Definitions ==
    {[name |-> "createPasswordSchema", options |-> o] : o \in PasswordOptions}
    \cup {[name |-> "createApiKey", prefix |-> p] : p \in Prefixes}
    \cup {[name |-> "object", min |-> m, order |-> o] : m \in LowerBounds, o \in PropOrders}

Inputs(definition_) ==
    CASE definition_.name = "createPasswordSchema" -> Passwords
      [] definition_.name = "createApiKey" -> Keys(definition_.prefix)
      [] definition_.name = "object" ->
            {Obj([email |-> Str(e), age |-> Num(a)]) : e \in Emails, a \in Ages}
            \cup {Num(42)}

\* the factory call: createApiKey may throw, the others return their schema
create(definition_) ==
    IF definition_.name = "createApiKey"
    THEN createApiKey(definition_.prefix)
    ELSE Returned(definition_.name)

CreateSchema ==
    /\ built = NotCalled
    /\ built' = create(definition)
    /\ UNCHANGED definition
    /\ UNCHANGED engineVars
    /\ UNCHANGED formatVars
    /\ UNCHANGED adapterVars
    /\ UNCHANGED resolverVars
    /\ UNCHANGED cacheVars

SchemaValidate == built.kind = "return" /\ Validate
SchemaSafeParse == built.kind = "return" /\ SafeParse
SchemaParse == built.kind = "return" /\ Parse

InitFactory ==
    /\ definition \in Definitions
    /\ built = NotCalled
    /\ schema = definition.name
    /\ data \in Inputs(definition)
    /\ engineConfig = [debug |-> FALSE, errorFormatter |-> undefined]
    /\ outcome = [validate |-> NotCalled, safeParse |-> NotCalled, parse |-> NotCalled]
    /\ coreLog = {}
    /\ FormatIdle
    /\ AdapterIdle
    /\ ResolverIdle
    /\ CacheIdle

NextFactory == CreateSchema \/ SchemaValidate \/ SchemaSafeParse \/ SchemaParse

SpecFactory == InitFactory /\ [][NextFactory]_vars

(***************************************************************************)
(* Server middleware: validateData, createErrorResponse and the Express,   *)
(* Fastify and Hono validators, each run on one request.                   *)
(***************************************************************************)
ResponseText ==
      \* "Validation failed: "
    [ validation_failed |-> <<"V", "a", "l", "i", "d", "a", "t", "i", "o", "n", " ", "f", "a",
          "i", "l", "e", "d", ":", " ">>,
      \* " issue(s)"
      issue_s |-> <<" ", "i", "s", "s", "u", "e", "(", "s", ")">> ]

\* c.req.json() rejected: the INVALID_JSON symbol
INVALID_JSON == [type |-> "invalid_json"]

\* validateData on a raw type, given the result of schema(data)
rawTypeResult(result) ==
    IF result.kind = "throw" THEN result
    ELSE IF result.kind = "errors"
    THEN Returned([success |-> FALSE, issues |-> format(result.errors, <<>>)])
    ELSE Returned([success |-> TRUE, data |-> result.data])

\* validateData: safeParse of a wrapped schema, else the raw type with the
\* module's own formatter
validateData(wrapped, schema_, config, data_) ==
    IF wrapped THEN safeParse(schema_, config, data_)
    ELSE rawTypeResult(ArkType(schema_, data_))

\* createErrorResponse with a fixed message
createErrorResponseFixedMessage(issues_) ==
    [success |-> FALSE,
     error |-> [code |-> "VALIDATION_ERROR",
                message |-> ResponseText.validation_failed \o <<"1">> \o ResponseText.issue_s,
                issues |-> issues_]]

\* createErrorResponse: the body of the default error response
createErrorResponse(issues_) ==
    [success |-> FALSE,
     error |-> [code |-> "VALIDATION_ERROR",
                message |-> ResponseText.validation_failed \o toString(Len(issues_))
                            \o ResponseText.issue_s,
                issues |-> issues_]]

\* what a middleware run did: responses sent, calls of next, calls of onError,
\* the validated data it stored, coreLogger entries, the exception it let through
NoEffects ==
    [sent |-> <<>>, next |-> <<>>, handled |-> <<>>, validated |-> undefined,
     logged |-> <<>>, threw |-> undefined]

\* res.status(400).json(createErrorResponse(issues)) and its log entry
defaultResponse(effects_, issues_) ==
    [effects_ EXCEPT
        !.sent = @ \o <<[by |-> "adapter", status |-> 400,
                         body |-> createErrorResponse(issues_)]>>,
        !.logged = @ \o <<[message |-> "Validation failed", issueCount |-> Len(issues_)]>>]

\* options.onError(issues, ...): a handler that responds itself, one that does
\* nothing (in Hono: returns undefined), one that calls next(error)
onError(handler, issues_) ==
    LET called == [NoEffects EXCEPT !.handled = <<issues_>>]
    IN CASE handler = "responds" ->
              [called EXCEPT !.sent = <<[by |-> "handler", status |-> 422,
                                         body |-> "custom"]>>]
         [] handler = "nothing" -> called
         [] handler = "next" -> [called EXCEPT !.next = <<"handler">>]

\* the success branch: the validated data is stored and next() is called
passOn(adapter, data_) ==
    [NoEffects EXCEPT !.validated = Some(data_),
                      !.next = IF adapter = "fastify" THEN <<>> ELSE <<"adapter">>]

\* the failure branch of expressValidator and fastifyValidator
fail(options, issues_) ==
    IF options.onError.some
    THEN onError(options.onError.val, issues_)
    ELSE defaultResponse(NoEffects, issues_)

\* handleValidationError (Hono) that never falls back to the default response
handleValidationErrorNoFallback(issues_, options) ==
    IF options.onError.some
    THEN onError(options.onError.val, issues_)
    ELSE defaultResponse(NoEffects, issues_)

\* handleValidationError (Hono): the handler's Response, else the default response
handleValidationError(issues_, options) ==
    IF options.onError.some
    THEN LET custom == onError(options.onError.val, issues_)
         IN IF Len(custom.sent) > 0 THEN custom ELSE defaultResponse(custom, issues_)
    ELSE defaultResponse(NoEffects, issues_)

\* expressValidator with next() called after the error response too
expressValidatorAlwaysNext(options, result) ==
    IF result.kind = "throw" THEN [NoEffects EXCEPT !.threw = Some(result.error)]
    ELSE IF ~result.value.success
    THEN [fail(options, result.value.issues) EXCEPT !.next = @ \o <<"adapter">>]
    ELSE passOn("express", result.value.data)

\* expressValidator: the middleware, given what validateData returned
expressValidator(options, result) ==
    IF result.kind = "throw" THEN [NoEffects EXCEPT !.threw = Some(result.error)]
    ELSE IF ~result.value.success THEN fail(options, result.value.issues)
    ELSE passOn("express", result.value.data)

\* fastifyValidator: the preHandler hook, given what validateData returned
fastifyValidator(options, result) ==
    IF result.kind = "throw" THEN [NoEffects EXCEPT !.threw = Some(result.error)]
    ELSE IF ~result.value.success THEN fail(options, result.value.issues)
    ELSE passOn("fastify", result.value.data)

\* honoValidator, given what validateData returned
honoResult(options, result) ==
    IF result.kind = "throw" THEN [NoEffects EXCEPT !.threw = Some(result.error)]
    ELSE IF ~result.value.success
    THEN handleValidationError(result.value.issues, options)
    ELSE passOn("hono", result.value.data)

\* honoValidator: the middleware, given the request data and the schema
honoValidator(options, wrapped, schema_, config, data_) ==
    IF data_ = INVALID_JSON
    THEN handleValidationError(<<[path |-> <<>>, code |-> "invalid_json"]>>, options)
    ELSE honoResult(options, validateData(wrapped, schema_, config, data_))

Adapters == {"express", "fastify", "hono"}
Targets == {"body", "query"}
Handlers(adapter) == {"responds", "nothing"} \cup (IF adapter = "express" THEN {"next"} ELSE {})

Middlewares ==
    {[adapter |-> a, target |-> t, wrapped |-> w, options |-> [onError |-> h]] :
        a \in Adapters, t \in Targets, w \in BOOLEAN,
        h \in {undefined} \cup {Some(x) : x \in {"responds", "nothing", "next"}}}

ExpressValidator ==
    /\ middleware.adapter = "express"
    /\ effects = NotCalled
    /\ effects' = expressValidator(middleware.options,
                      validateData(middleware.wrapped, schema, engineConfig, data))
    /\ UNCHANGED <<middleware, engineVars, formatVars, factoryVars, resolverVars, cacheVars>>

FastifyValidator ==
    /\ middleware.adapter = "fastify"
    /\ effects = NotCalled
    /\ effects' = fastifyValidator(middleware.options,
                      validateData(middleware.wrapped, schema, engineConfig, data))
    /\ UNCHANGED <<middleware, engineVars, formatVars, factoryVars, resolverVars, cacheVars>>

HonoValidator ==
    /\ middleware.adapter = "hono"
    /\ effects = NotCalled
    /\ effects' = honoValidator(middleware.options, middleware.wrapped, schema,
                                engineConfig, data)
    /\ UNCHANGED <<middleware, engineVars, formatVars, factoryVars, resolverVars, cacheVars>>

InitAdapter ==
    /\ middleware \in Middlewares
    /\ middleware.options.onError.some =>
          middleware.options.onError.val \in Handlers(middleware.adapter)
    /\ effects = NotCalled
    /\ schema \in Schemas
    /\ engineConfig \in {c \in EngineConfigs : ~c.debug}
    /\ data \in Values \cup (IF middleware.adapter = "hono" /\ middleware.target = "body"
                             THEN {INVALID_JSON} ELSE {})
    /\ outcome = [validate |-> NotCalled, safeParse |-> NotCalled, parse |-> NotCalled]
    /\ coreLog = {}
    /\ FormatIdle
    /\ FactoryIdle
    /\ ResolverIdle
    /\ CacheIdle

NextAdapter == ExpressValidator \/ FastifyValidator \/ HonoValidator

SpecAdapter == InitAdapter /\ [][NextAdapter]_vars

(***************************************************************************)
(* React Hook Form resolver: issuesToFieldErrors and arktypeResolver, run  *)
(* once on the form values.                                                *)
(***************************************************************************)
\* the property names of the forms, as the characters join() writes
FieldText ==
    [ password |-> <<"p", "a", "s", "s", "w", "o", "r", "d">>,
      email    |-> <<"e", "m", "a", "i", "l">>,
      items    |-> <<"i", "t", "e", "m", "s">>,
      user     |-> <<"u", "s", "e", "r">>,
      profile  |-> <<"p", "r", "o", "f", "i", "l", "e">>,
      name     |-> <<"n", "a", "m", "e">> ]

\* String(segment) of a path segment
segment(s) == IF Has(s, "key") THEN FieldText[s.key] ELSE toString(s.index)

\* Array.prototype.join
RECURSIVE join(_, _)
join(path, separator) ==
    IF Len(path) = 0 THEN <<>>
    ELSE IF Len(path) = 1 THEN segment(path[1])
    ELSE segment(path[1]) \o separator \o join(Tail(path), separator)

\* issue.message, undefined on an issue that has none
messageOf(issue) == IF Has(issue, "message") THEN Some(issue.message) ELSE undefined

\* one turn of the loop of issuesToFieldErrors on `issue`; keepFirst is the
\* test `!errors[path]` before the entry is written
fieldError(errors, issue, validateAllFieldCriteria, keepFirst) ==
    LET path == join(issue.path, <<".">>)
        entry == IF keepFirst /\ Has(errors, path) THEN errors[path]
                 ELSE [type |-> issue.code, message |-> messageOf(issue)]
        types == IF Has(entry, "types") THEN entry.types ELSE <<>>
    IN IF path = <<>> THEN errors
       ELSE IF validateAllFieldCriteria
       THEN Put(errors, path,
                Put(entry, "types", Put(types, issue.code, messageOf(issue))))
       ELSE Put(errors, path, entry)

RECURSIVE fieldErrorsLoop(_, _, _, _)
fieldErrorsLoop(issues_, validateAllFieldCriteria, keepFirst, errors) ==
    IF Len(issues_) = 0 THEN Returned(errors)
    ELSE IF ~Has(issues_[1], "path")
    THEN [kind |-> "throw",
          error |-> [name |-> "TypeError", message |-> "issue.path is undefined"]]
    ELSE fieldErrorsLoop(Tail(issues_), validateAllFieldCriteria, keepFirst,
             fieldError(errors, issues_[1], validateAllFieldCriteria, keepFirst))

\* issuesToFieldErrors where every issue of a path overwrites the entry
issuesToFieldErrorsLastWins(issues_, validateAllFieldCriteria) ==
    fieldErrorsLoop(issues_, validateAllFieldCriteria, FALSE, <<>>)

\* issuesToFieldErrors: the error map, or the TypeError of `issue.path.join` on an
\* issue without a path
issuesToFieldErrors(issues_, validateAllFieldCriteria) ==
    fieldErrorsLoop(issues_, validateAllFieldCriteria, TRUE, <<>>)

\* { values: {}, errors }, unless issuesToFieldErrors threw
emptyValuesWith(errors) ==
    IF errors.kind = "throw" THEN errors
    ELSE Returned([values |-> <<>>, errors |-> errors.value])

\* the resolver's result on a failure with `issues_`
resolverFailure(issues_, validateAllFieldCriteria) ==
    emptyValuesWith(issuesToFieldErrors(issues_, validateAllFieldCriteria))

\* the branch for a Schema wrapper, given what schema.safeParse(values) returned
wrappedSchemaResult(result, validateAllFieldCriteria) ==
    IF result.kind = "throw" THEN result
    ELSE IF result.value.success
    THEN Returned([values |-> result.value.data, errors |-> <<>>])
    ELSE resolverFailure(result.value.issues, validateAllFieldCriteria)

\* the branch for a raw type, given what schema(values) returned
rawSchemaResult(result, validateAllFieldCriteria) ==
    IF result.kind = "throw" THEN result
    ELSE IF result.kind = "errors"
    THEN resolverFailure(format(result.errors, <<>>), validateAllFieldCriteria)
    ELSE Returned([values |-> result.data, errors |-> <<>>])

\* const { validateAllFieldCriteria = false } = options
validateAllFieldCriteriaOf(options) ==
    IF options.validateAllFieldCriteria.some
    THEN options.validateAllFieldCriteria.val ELSE FALSE

\* the function arktypeResolver(schema, options) returns, applied to values
arktypeResolver(wrapped, schema_, config, options, values) ==
    IF wrapped
    THEN wrappedSchemaResult(safeParse(schema_, config, values),
                             validateAllFieldCriteriaOf(options))
    ELSE rawSchemaResult(ArkType(schema_, values), validateAllFieldCriteriaOf(options))

\* failures of the nested form type({user: {profile: {name, email}}})
NestedFailures ==
    { [path |-> <<Key("user"), Key("profile"), Key("name")>>, code |-> "minLength",
       expected |-> Text.at_least_3, rule |-> 3, message |-> Text.msg_at_least],
      [path |-> <<Key("user"), Key("profile"), Key("email")>>, code |-> "pattern",
       expected |-> Text.email, actual |-> "invalid", message |-> Text.msg_email] }

\* custom error formatters of a wrapped form schema: issues with messages, two
\* codes on one field, and one code twice on one field
FormFormatters ==
    { [returns |-> <<[path |-> <<Key("user"), Key("profile"), Key("email")>>,
                      code |-> ErrorCodes.INVALID_EMAIL, message |-> "Invalid email"],
                     [path |-> <<Key("user"), Key("profile"), Key("email")>>,
                      code |-> ErrorCodes.STRING_MIN, message |-> "Too short"],
                     [path |-> <<Key("items"), Index(0)>>,
                      code |-> ErrorCodes.INVALID_TYPE, message |-> "Not a string"]>>],
      [returns |-> <<[path |-> <<Key("password")>>, code |-> ErrorCodes.PREDICATE,
                      message |-> "No uppercase"],
                     [path |-> <<Key("password")>>, code |-> ErrorCodes.PREDICATE,
                      message |-> "No number"]>>] }

FormValues == Obj([email |-> Str(Text.val_invalid)])

\* what the form's type returns on the values: the values, or failures
FormResults ==
    {Accepted(FormValues)}
    \cup {Rejected(e) : e \in SeqsUpTo(Catalogue \cup NestedFailures, MaxFailures) \ {<<>>}}

Forms ==
    [wrapped : BOOLEAN, arkType : FormResults,
     options : [validateAllFieldCriteria : Optional(BOOLEAN)]]

Resolve ==
    /\ form.schema = "form"
    /\ resolved = NotCalled
    /\ resolved' = arktypeResolver(form.wrapped, schema, engineConfig, form.options, data)
    /\ UNCHANGED <<form, engineVars, formatVars, factoryVars, adapterVars, cacheVars>>

InitResolver ==
    /\ \E f \in Forms : form = [schema |-> "form"] @@ f
    /\ resolved = NotCalled
    /\ schema = "form"
    /\ data = FormValues
    /\ engineConfig \in
          {[debug |-> FALSE, errorFormatter |-> e] :
              e \in IF form.wrapped THEN Optional(CustomFormatters \cup FormFormatters)
                    ELSE {undefined}}
    /\ outcome = [validate |-> NotCalled, safeParse |-> NotCalled, parse |-> NotCalled]
    /\ coreLog = {}
    /\ FormatIdle
    /\ FactoryIdle
    /\ AdapterIdle
    /\ CacheIdle

NextResolver == Resolve

SpecResolver == InitResolver /\ [][NextResolver]_vars

(***************************************************************************)
(* ValidationCache: the map behind the cached async validators, with a     *)
(* clock for Date.now().                                                   *)
(***************************************************************************)
\* capacity of the cache, scaled down from the 1000 of the constructor
maxSize == 2
\* default time to live, scaled down from 5 * 60 * 1000 ms to clock ticks
defaultTtl == 2
\* last instant of the clock
MaxTime == 2

\* get's miss
null == [some |-> FALSE]

\* Map.prototype.has / get / delete / set on entries kept in insertion order
mapHas(map, key) == \E i \in 1..Len(map) : map[i].key = key
mapGet(map, key) == map[CHOOSE i \in 1..Len(map) : map[i].key = key]
mapDelete(map, key) == SelectSeq(map, LAMBDA e : e.key # key)
mapSet(map, key, entry) ==
    IF mapHas(map, key)
    THEN [i \in 1..Len(map) |-> IF map[i].key = key THEN [key |-> key] @@ entry ELSE map[i]]
    ELSE Append(map, [key |-> key] @@ entry)

\* get with an entry taken as expired from the instant it expires
getExpiredAtExpiry(map, key, time) ==
    IF ~mapHas(map, key) THEN [cache |-> map, returns |-> null]
    ELSE IF time >= mapGet(map, key).expires
    THEN [cache |-> mapDelete(map, key), returns |-> null]
    ELSE [cache |-> map, returns |-> Some(mapGet(map, key).value)]

\* ValidationCache.get: the map after the call and the value returned
get(map, key, time) ==
    IF ~mapHas(map, key) THEN [cache |-> map, returns |-> null]
    ELSE IF time > mapGet(map, key).expires
    THEN [cache |-> mapDelete(map, key), returns |-> null]
    ELSE [cache |-> map, returns |-> Some(mapGet(map, key).value)]

\* the eviction of set: the first key of the map, when it is truthy
evict(map) ==
    IF Len(map) >= maxSize
    THEN IF Len(map) > 0 /\ map[1].key # "" THEN mapDelete(map, map[1].key) ELSE map
    ELSE map

\* ValidationCache.set; ttl || defaultTtl takes the default for 0 too
set(map, key, value, ttl, time) ==
    mapSet(evict(map), key,
           [value |-> value,
            expires |-> time + (IF ttl.some /\ ttl.val # 0 THEN ttl.val ELSE defaultTtl)])

\* ValidationCache.clear, ValidationCache.size
clear(map) == <<>>
size(map) == Len(map)

\* getCacheStats
getCacheStats == [size |-> size(cache), maxSize |-> maxSize]

\* keys the cacheKeyFn of a validator may give: the empty string and maxSize others
KeyNames == <<"a", "b", "c", "d", "e">>
CacheKeys == {""} \cup {KeyNames[i] : i \in 1..maxSize}
CachedValues == {"valid", "taken"}
Ttls == {undefined, Some(0), Some(1)}

otherVars == <<formatVars, engineVars, factoryVars, adapterVars, resolverVars>>

Set ==
    \E key \in CacheKeys, value \in CachedValues, ttl \in Ttls :
        /\ cache' = set(cache, key, value, ttl, now)
        /\ stored' = [kind |-> "set", key |-> key, ttl |-> ttl, at |-> now]
        /\ UNCHANGED <<now, got, calls>>
        /\ UNCHANGED otherVars

Get ==
    \E key \in CacheKeys :
        /\ cache' = get(cache, key, now).cache
        /\ got' = [kind |-> "return", value |-> get(cache, key, now).returns,
                   key |-> key, at |-> now]
        /\ UNCHANGED <<now, stored, calls>>
        /\ UNCHANGED otherVars

\* ValidationCache.clear, as clearValidationCache calls it on the global cache
Clear ==
    /\ cache' = clear(cache)
    /\ UNCHANGED <<now, got, stored, calls>>
    /\ UNCHANGED otherVars

\* Date.now() advances
Tick ==
    /\ now < MaxTime
    /\ now' = now + 1
    /\ UNCHANGED <<cache, got, stored, calls>>
    /\ UNCHANGED otherVars

InitCache ==
    /\ CacheIdle
    /\ EngineIdle
    /\ FormatIdle
    /\ FactoryIdle
    /\ AdapterIdle
    /\ ResolverIdle

NextCache == Set \/ Get \/ Clear \/ Tick

SpecCache == InitCache /\ [][NextCache]_vars

(***************************************************************************)
(* withCache: async validators wrapped around the one global cache.  A     *)
(* call looks its key up first; on a miss it awaits the underlying         *)
(* validator, and until that settles other calls may start or settle, the  *)
(* clock may advance and the cache may be cleared.                         *)
(***************************************************************************)
\* calls made in one behaviour
MaxCalls == 2
\* the cacheTtl default of withCache, 5 * 60 * 1000 ms, scaled like defaultTtl
cacheTtlDefault == 2

\* the text of a string given by its characters
RECURSIVE text(_)
text(s) == IF s = <<>> THEN "" ELSE s[1] \o text(Tail(s))

\* values handed to the validators: 'Test' and null
string(chars) == [type |-> "string", chars |-> chars]
nullValue == [type |-> "null"]
ValidatedValues == {string(<<"T", "e", "s", "t">>), nullValue}

\* String(value) and ${value}
String(value) == IF value.type = "null" THEN <<"n", "u", "l", "l">> ELSE value.chars

\* createFastCacheKey, for the primitive values, null and undefined
createFastCacheKey(value) ==
    IF value.type \in {"string", "number", "boolean"}
    THEN value.type \o ":" \o text(String(value))
    ELSE IF value.type = "null" THEN "null"
    ELSE "undefined"

createValidationError(key, reason, path, value) ==
    [key |-> key, reason |-> reason]
    @@ (IF path.some THEN [path |-> path.val] ELSE <<>>)
    @@ (IF value.type # "undefined" THEN [value |-> value] ELSE <<>>)

createFailureResult(errors) == [success |-> FALSE, errors |-> errors]
createSuccessResult(data_) == [success |-> TRUE, data |-> data_]

\* new Error(message), and the TypeError of a method called on null
TypeErrorThrown(message) ==
    [kind |-> "throw", error |-> [name |-> "TypeError", message |-> message]]

\* the ways the underlying validators settle: mockValidator and errorValidator of
\* the tests, and the validator behind validateUniqueUsername
mockValidator(value) == {Returned([success |-> TRUE, data |-> value])}
errorValidator(value) == {Thrown("Validation failed")}

reservedUsernames == {"admin", "root", "system", "api", "nextnode", "support"}

uniqueUsername(username) ==
    IF username.type = "null"
    THEN {TypeErrorThrown("Cannot read properties of null (reading 'toLowerCase')")}
    ELSE IF text(toLowerCase(username.chars)) \in reservedUsernames
    THEN {Returned(createFailureResult(<<createValidationError("INVALID_USERNAME",
              "Username \"" \o text(username.chars) \o "\" is reserved and cannot be used",
              undefined, username)>>))}
    ELSE {Returned(createFailureResult(<<createValidationError("INVALID_USERNAME",
              "Username \"" \o text(username.chars) \o "\" is already taken",
              undefined, username)>>)),
          Returned(createSuccessResult(username))}

settles(validator, value) ==
    CASE validator = "mockValidator" -> mockValidator(value)
      [] validator = "errorValidator" -> errorValidator(value)
      [] validator = "uniqueUsername" -> uniqueUsername(value)

\* the cached validators: what withCache was given
Wrapped ==
    [cachedValidator |->
         [validator |-> "mockValidator", cacheTtl |-> Some(1), cacheKeyFn |-> undefined],
     cachedErrorValidator |->
         [validator |-> "errorValidator", cacheTtl |-> undefined, cacheKeyFn |-> undefined],
     validateUniqueUsername |->
         [validator |-> "uniqueUsername", cacheTtl |-> Some(3),
          cacheKeyFn |-> Some("username")]]

\* the destructuring of config in withCache
cacheTtl(config) == IF config.cacheTtl.some THEN config.cacheTtl.val ELSE cacheTtlDefault
cacheKeyFn(config, value) ==
    IF config.cacheKeyFn.some
    THEN "username:" \o text(toLowerCase(String(value)))
    ELSE createFastCacheKey(value)

\* the calls that have returned
settled(calls_) == {i \in 1..Len(calls_) : calls_[i].stage = "done"}

\* withCache up to the await: the cache lookup and the return of a hit
started(wrapped, value, cached, time, before) ==
    [wrapped |-> wrapped, value |-> value, key |-> cacheKeyFn(Wrapped[wrapped], value),
     at |-> time, after |-> before,
     stage |-> IF cached.some THEN "done" ELSE "awaiting",
     invoked |-> ~cached.some,
     threw |-> FALSE,
     result |-> cached,
     order |-> IF cached.some THEN Cardinality(before) + 1 ELSE 0]

\* a pending call returns result; order counts the calls in the order they returned
finished(call, result, threw, before) ==
    [call EXCEPT !.stage = "done", !.threw = threw, !.result = Some(result),
                 !.order = Cardinality(before) + 1]

\* a store that keeps the entry a key already has
storeResultIfAbsent(map, call, result, time) ==
    IF mapHas(map, call.key) THEN map
    ELSE set(map, call.key, result, Some(cacheTtl(Wrapped[call.wrapped])), time)

\* withCache after the await: the cache when the validator returned result
storeResult(map, call, result, time) ==
    set(map, call.key, result, Some(cacheTtl(Wrapped[call.wrapped])), time)

\* a catch that stores the failure it returns
catchErrorStoring(map, call, error) ==
    [cache |-> set(map, call.key,
                   createFailureResult(<<createValidationError("ASYNC_VALIDATION_FAILED",
                       "Async validation failed: " \o error.message, undefined, call.value)>>),
                   Some(cacheTtl(Wrapped[call.wrapped])), call.at),
     result |-> createFailureResult(<<createValidationError("ASYNC_VALIDATION_FAILED",
                    "Async validation failed: " \o error.message, undefined, call.value)>>)]

\* withCache's catch: the cache and the result when the validator threw
catchError(map, call, error) ==
    [cache |-> map,
     result |-> createFailureResult(<<createValidationError("ASYNC_VALIDATION_FAILED",
                    "Async validation failed: " \o error.message, undefined, call.value)>>)]

\* the cached validator is called: cacheKeyFn, globalCache.get, and either the
\* cached result is returned or the underlying validator is invoked
CallCached ==
    \E wrapped \in DOMAIN Wrapped, value \in ValidatedValues :
        /\ Len(calls) < MaxCalls
        /\ cache' = get(cache, cacheKeyFn(Wrapped[wrapped], value), now).cache
        /\ calls' = Append(calls,
               started(wrapped, value,
                       get(cache, cacheKeyFn(Wrapped[wrapped], value), now).returns,
                       now, settled(calls)))
        /\ UNCHANGED <<now, got, stored>>
        /\ UNCHANGED otherVars

\* the underlying validator of a pending call returns: globalCache.set and return
ValidatorReturns ==
    \E i \in 1..Len(calls) :
        /\ calls[i].stage = "awaiting"
        /\ \E outcome_ \in settles(Wrapped[calls[i].wrapped].validator, calls[i].value) :
               /\ outcome_.kind = "return"
               /\ cache' = storeResult(cache, calls[i], outcome_.value, now)
               /\ calls' = [calls EXCEPT
                              ![i] = finished(@, outcome_.value, FALSE, settled(calls))]
        /\ UNCHANGED <<now, got, stored>>
        /\ UNCHANGED otherVars

\* the underlying validator of a pending call throws: the catch block
ValidatorThrows ==
    \E i \in 1..Len(calls) :
        /\ calls[i].stage = "awaiting"
        /\ \E outcome_ \in settles(Wrapped[calls[i].wrapped].validator, calls[i].value) :
               /\ outcome_.kind = "throw"
               /\ cache' = catchError(cache, calls[i], outcome_.error).cache
               /\ calls' = [calls EXCEPT
                              ![i] = finished(@, catchError(cache, calls[i], outcome_.error).result,
                                              TRUE, settled(calls))]
        /\ UNCHANGED <<now, got, stored>>
        /\ UNCHANGED otherVars

NextCached == CallCached \/ ValidatorReturns \/ ValidatorThrows \/ Clear \/ Tick

SpecCached == InitCache /\ [][NextCached]_vars

(***************************************************************************)
(* Properties of the formatter (SpecFormat).                               *)
(***************************************************************************)
\* the results format has returned so far
FormatResults == {r \in {issues, again, otherIssues} : r.some}
ReturnedIssues == UNION {{r.val[i] : i \in 1..Len(r.val)} : r \in FormatResults}

IsCompound(e) == Has(e, "expected") /\ includes(e.expected, <<Bullet>>)
\* the failure is split: it is compound and has a non-empty fragment
IsSplit(e) == IsCompound(e) /\ Len(fragments(e.expected)) > 0
ComposedPath(e) == basePath \o (IF Has(e, "path") THEN e.path ELSE <<>>)

\* the number of issues of failure e, and where the issues of arkErrors[i] start
IssueCount(e) == IF IsSplit(e) THEN Len(fragments(e.expected)) ELSE 1
RECURSIVE IssueOffset(_)
IssueOffset(i) == IF i <= 1 THEN 0 ELSE IssueOffset(i - 1) + IssueCount(arkErrors[i - 1])

\* C1: format emits at least one issue for each raw failure, also for one whose
\* expected holds the delimiter but no non-empty fragment, so a non-empty input
\* never yields an empty issue sequence.
C1_NoFailureDropped ==
    issues.some =>
        /\ Len(issues.val) >= Len(arkErrors)
        /\ (Len(arkErrors) > 0 => Len(issues.val) > 0)

\* a compound failure of three fragments followed by one with no fragment at all
C1_Witness ==
    /\ issues.some
    /\ Len(arkErrors) = 2
    /\ arkErrors[1].expected = Text.password3
    /\ arkErrors[2] = [expected |-> Text.bullets]
    /\ Len(issues.val) = 4

C3_ParamsAbsentOrNonEmpty ==
    \A issue \in ReturnedIssues : Has(issue, "params") => DOMAIN issue.params # {}

\* issues with and without params, from a fragment and from a single failure
C3_Witness ==
    /\ issues.some
    /\ Len(arkErrors) = 2
    /\ IsSplit(arkErrors[1]) /\ ~IsCompound(arkErrors[2])
    /\ \E i, j \in 1..IssueCount(arkErrors[1]) :
          Has(issues.val[i], "params") /\ ~Has(issues.val[j], "params")
    /\ ~Has(issues.val[Len(issues.val)], "params")

\* the code of a fragment: character -> string_min, uppercase / lowercase /
\* number or digit / special -> the password rule's code, else predicate
FragmentCode(fragment) ==
    LET lower == toLowerCase(fragment)
    IN IF includes(lower, Keyword.character) THEN "string_min"
       ELSE IF includes(lower, Keyword.uppercase) THEN "password_no_uppercase"
       ELSE IF includes(lower, Keyword.lowercase) THEN "password_no_lowercase"
       ELSE IF includes(lower, Keyword.number) THEN "password_no_number"
       ELSE IF includes(lower, Keyword.digit) THEN "password_no_number"
       ELSE IF includes(lower, Keyword.special) THEN "password_no_special"
       ELSE "predicate"

\* the issue of a fragment at a path: min is the N of `at least N character`
FragmentIssue(path, fragment) ==
    LET n == matchNumber(fragment, Keyword.at_least, Keyword.sp_character)
        coded == IF Len(path) > 0
                 THEN [path |-> path, code |-> FragmentCode(fragment)]
                 ELSE [code |-> FragmentCode(fragment)]
    IN IF n.some THEN Put(coded, "params", [min |-> parseInt(n.val)]) ELSE coded

\* the issues of arkErrors[i] are those of its fragments, in fragment order
FragmentIssues(i) ==
    LET parts == fragments(arkErrors[i].expected)
    IN /\ Len(issues.val) >= IssueOffset(i) + Len(parts)
       /\ \A j \in 1..Len(parts) :
             issues.val[IssueOffset(i) + j] = FragmentIssue(ComposedPath(arkErrors[i]), parts[j])

\* `at least 8 characters◦an uppercase letter◦a number` gives string_min with
\* min = 8, password_no_uppercase and password_no_number
PasswordExample(i) ==
    arkErrors[i].expected = Text.password3 =>
        LET at == IssueOffset(i)
        IN /\ issues.val[at + 1].code = "string_min"
           /\ issues.val[at + 1].params = [min |-> 8]
           /\ issues.val[at + 2].code = "password_no_uppercase"
           /\ issues.val[at + 3].code = "password_no_number"
           /\ ~Has(issues.val[at + 2], "params") /\ ~Has(issues.val[at + 3], "params")

NoMappingRule(e) ==
    LET expected == IF Has(e, "expected") THEN toLowerCase(e.expected) ELSE <<>>
        message == IF Has(e, "message") THEN toLowerCase(e.message) ELSE <<>>
        formats == {Keyword.email, Keyword.url, Keyword.uuid, Keyword.date, Keyword.json,
                    Keyword.base64, Keyword.hex, Keyword.integer, Keyword.creditcard,
                    Keyword.credit_card, Keyword.ip}
    IN /\ ~IsSplit(e)
       /\ \A k \in formats : ~includes(expected, k)
       /\ ~includes(message, Keyword.must_be_at_least)
       /\ ~includes(message, Keyword.must_be_at_most)
       /\ expected # Keyword.required
       /\ Has(e, "code") => e.code \notin {"minLength", "maxLength", "predicate", "required"}

\* C10: format returns for every raw failure, whichever of its optional fields are
\* absent, and a failure no mapping rule matches gets the engine's code, or
\* invalid_type when it has none.
C10_TotalWithFallbackCode ==
    /\ LET returned == format(arkErrors, basePath)
       IN /\ Len(returned) >= Len(arkErrors)
          /\ \A i \in 1..Len(returned) : Has(returned[i], "code")
    /\ issues.some =>
          \A i \in 1..Len(arkErrors) :
              NoMappingRule(arkErrors[i]) =>
                  issues.val[IssueOffset(i) + 1].code =
                      IF Has(arkErrors[i], "code")
                      THEN arkErrors[i].code
                      ELSE "invalid_type"

\* a raw failure with every optional field absent
C10_Witness ==
    /\ issues.some
    /\ Len(arkErrors) = 1
    /\ DOMAIN arkErrors[1] = {}
    /\ issues.val = <<[code |-> "invalid_type"]>>

(***************************************************************************)
(* Properties of the schema wrapper (Spec).                                *)
(***************************************************************************)
ThrewValidationError(result) ==
    result.kind = "throw" /\ result.error.name = "ValidationError"
ReturnedFailure(result) == result.kind = "return" /\ ~result.value.success
ReturnedSuccess(result) == result.kind = "return" /\ result.value.success

\* C5: parse(value) throws ValidationError if and only if safeParse(value).success
\* is false, and the thrown error's issues equal safeParse(value).issues.
C5_ParseThrowsIffSafeParseFails ==
    (outcome.parse # NotCalled /\ outcome.safeParse # NotCalled) =>
        /\ ThrewValidationError(outcome.parse) <=> ReturnedFailure(outcome.safeParse)
        /\ ThrewValidationError(outcome.parse) =>
              outcome.parse.error.issues = outcome.safeParse.value.issues

\* a rejected value: parse threw the issues of the default formatter
C5_Witness ==
    /\ ThrewValidationError(outcome.parse)
    /\ ReturnedFailure(outcome.safeParse)
    /\ ~engineConfig.errorFormatter.some
    /\ Len(outcome.parse.error.issues) > 0

\* C6: for a value the underlying schema accepts, safeParse returns success with
\* data equal to the engine's accepted (possibly coerced) value, and parse returns
\* that same data without throwing.
C6_AcceptedValueIsReturned ==
    LET result == ArkType(schema, data)
    IN result.kind = "data" =>
          /\ outcome.safeParse # NotCalled =>
                /\ ReturnedSuccess(outcome.safeParse)
                /\ DOMAIN outcome.safeParse.value = {"success", "data"}
                /\ outcome.safeParse.value.data = result.data
          /\ outcome.validate # NotCalled =>
                /\ ReturnedSuccess(outcome.validate)
                /\ outcome.validate.value.data = result.data
          /\ outcome.parse # NotCalled => outcome.parse = Returned(result.data)

\* an accepted value the schema coerces: the trimmed string is returned
C6_Witness ==
    /\ schema = "trim"
    /\ data = Str(Text.val_padded)
    /\ ReturnedSuccess(outcome.safeParse)
    /\ outcome.safeParse.value.data # data
    /\ outcome.parse = Returned(outcome.safeParse.value.data)

\* C8 as stated: every result returned by validate / safeParse has exactly one
\* variant populated, and its issue sequence is non-empty when success is false,
\* with the default formatter and with a custom errorFormatter.
C8_FailureHasIssues ==
    \A method \in {"validate", "safeParse"} :
        outcome[method].kind = "return" =>
            LET result == outcome[method].value
            IN /\ result.success => DOMAIN result = {"success", "data"}
               /\ ~result.success =>
                     /\ DOMAIN result = {"success", "issues"}
                     /\ Len(result.issues) > 0

\* C9 as stated: validate and safeParse never throw, for any input value on any
\* schema of the library; a rejected value is reported as a failure result.
C9_NeverThrows ==
    \A method \in {"validate", "safeParse"} : outcome[method].kind # "throw"

(***************************************************************************)
(* Properties of the schema factories (SpecFactory).                       *)
(***************************************************************************)
IsPasswordSchema == definition.name = "createPasswordSchema" /\ data.type = "string"
ViolatedRules == SelectSeq(rules(definition.options), LAMBDA rule : ~check(rule, data.chars))

\* the code the taxonomy has for each password rule
RuleCode(rule) ==
    CASE rule.check = "length" -> "string_min"
      [] rule.check = "uppercase" -> "password_no_uppercase"
      [] rule.check = "lowercase" -> "password_no_lowercase"
      [] rule.check = "number" -> "password_no_number"
      [] rule.check = "special" -> "password_no_special"

\* C11 as stated: with failFast unset, a password schema returns one issue per
\* violated rule, each with that rule's own code (string_min for length,
\* password_no_uppercase / _lowercase / _number / _special for a missing character
\* class), whether one rule or several rules fail.
C11_OneIssuePerRuleWithOwnCode ==
    (/\ IsPasswordSchema
     /\ ~passwordRequirements(definition.options).failFast
     /\ outcome.safeParse.kind = "return"
     /\ Len(ViolatedRules) > 0)
    => /\ ~outcome.safeParse.value.success
       /\ Len(outcome.safeParse.value.issues) = Len(ViolatedRules)
       /\ \A i \in 1..Len(ViolatedRules) :
             outcome.safeParse.value.issues[i].code = RuleCode(ViolatedRules[i])

\* C12: with failFast: true, a password schema returns exactly one issue for every
\* rejected string, the issue of the first failing rule in rule order (length,
\* uppercase, lowercase, number, special): string_min with min = minLength when the
\* string is too short, else the predicate issue of the first missing character class.
C12_FailFastGivesFirstRuleOnly ==
    (/\ IsPasswordSchema
     /\ passwordRequirements(definition.options).failFast
     /\ outcome.safeParse.kind = "return"
     /\ Len(ViolatedRules) > 0)
    => /\ ~outcome.safeParse.value.success
       /\ outcome.safeParse.value.issues =
             format(<<predicateError(ViolatedRules[1].expected, printable(data))>>, <<>>)
       /\ outcome.safeParse.value.issues =
             <<IF ViolatedRules[1].check = "length"
               THEN [code |-> "string_min",
                     params |-> [min |-> passwordRequirements(definition.options).minLength]]
               ELSE [code |-> "predicate"]>>

\* `abc` against a failFast schema of which it violates several rules
C12_Witness ==
    /\ IsPasswordSchema
    /\ passwordRequirements(definition.options).failFast
    /\ data = Str(SchemaText.abc)
    /\ Len(ViolatedRules) >= 3
    /\ outcome.safeParse.kind = "return"
    /\ Len(outcome.safeParse.value.issues) = 1

\* a string that passes the length rule and lacks a later character class
C12_WitnessLaterRule ==
    /\ IsPasswordSchema
    /\ passwordRequirements(definition.options).failFast
    /\ Len(ViolatedRules) >= 2
    /\ ViolatedRules[1].check # "length"
    /\ outcome.safeParse.kind = "return"

NumberCodes ==
    {ErrorCodes.NUMBER_MIN, ErrorCodes.NUMBER_MAX, ErrorCodes.NUMBER_RANGE,
     ErrorCodes.NOT_POSITIVE, ErrorCodes.NOT_NEGATIVE}

FailingFields ==
    {f \in {"email", "age"} : Len(propErrors(f, definition.min, data.fields[f])) > 0}

\* C13 as stated: a violated numeric lower bound at field f is reported as an issue
\* with path [f] and a number min/range code of the taxonomy, one issue per failing
\* field.
C13_LowerBoundGivesNumberCode ==
    (/\ definition.name = "object"
     /\ data.type = "object"
     /\ outcome.safeParse.kind = "return"
     /\ data.fields.age.n < definition.min)
    => LET result == outcome.safeParse.value
       IN /\ ~result.success
          /\ Len(result.issues) = Cardinality(FailingFields)
          /\ \E i \in 1..Len(result.issues) :
                /\ result.issues[i].path = <<Key("age")>>
                /\ result.issues[i].code \in NumberCodes

\* C14 as stated: createApiKey(p) accepts p + '_' + 32 or more alphanumerics, and
\* rejects a key carrying a different prefix with exactly one issue whose code is
\* invalid_format or string_pattern and whose path is absent.
C14_KeyAcceptedOrPatternIssue ==
    (/\ definition.name = "createApiKey"
     /\ data.type = "string"
     /\ outcome.safeParse.kind = "return")
    => LET result == outcome.safeParse.value
           p == definition.prefix
           wellFormed == \E n \in KeyLength..(KeyLength + 2) :
                            /\ Len(data.chars) = Len(p) + 1 + n
                            /\ SubSeq(data.chars, 1, Len(p) + 1) = p \o <<"_">>
                            /\ \A i \in (Len(p) + 2)..Len(data.chars) :
                                  data.chars[i] \in AlphaNumerics
           otherPrefix == \E q \in Prefixes \ {p} :
                             data.chars = q \o <<"_">> \o repeat("A", KeyLength)
       IN /\ wellFormed => result.success
          /\ otherPrefix =>
                /\ ~result.success
                /\ Len(result.issues) = 1
                /\ result.issues[1].code \in {ErrorCodes.INVALID_FORMAT,
                                              ErrorCodes.STRING_PATTERN}
                /\ ~Has(result.issues[1], "path")

HasOtherCharacter(prefix) == \E i \in 1..Len(prefix) : prefix[i] \notin WordChars

C15_WitnessBuilt ==
    /\ definition.name = "createApiKey"
    /\ definition.prefix = SchemaText.API_KEY_V2
    /\ built.kind = "return"
    /\ outcome.safeParse.kind = "return"

(***************************************************************************)
(* Properties of the server middleware (SpecAdapter).                      *)
(***************************************************************************)
\* the issue list the middleware's validation produced, if it failed
FailedWith ==
    IF data = INVALID_JSON THEN Some(<<[path |-> <<>>, code |-> "invalid_json"]>>)
    ELSE LET result == validateData(middleware.wrapped, schema, engineConfig, data)
         IN IF result.kind = "return" /\ ~result.value.success
            THEN Some(result.value.issues)
            ELSE undefined

Succeeded ==
    /\ data # INVALID_JSON
    /\ validateData(middleware.wrapped, schema, engineConfig, data).kind = "return"
    /\ validateData(middleware.wrapped, schema, engineConfig, data).value.success

SentBy(who) == SelectSeq(effects.sent, LAMBDA response : response.by = who)
NextBy(who) == SelectSeq(effects.next, LAMBDA caller : caller = who)

\* C16: when validation fails and no error handler is configured, the Express,
\* Fastify and Hono adapters each respond once, with status 400 and the body
\* {success: false, error: {code: 'VALIDATION_ERROR', message: 'Validation failed:
\* N issue(s)', issues}}, issues being the validation's issue list and N its length.
C16_Default400Body ==
    (effects # NotCalled /\ FailedWith.some /\ ~middleware.options.onError.some) =>
        /\ Len(effects.sent) = 1
        /\ effects.sent[1].status = 400
        /\ DOMAIN effects.sent[1].body = {"success", "error"}
        /\ effects.sent[1].body.success = FALSE
        /\ DOMAIN effects.sent[1].body.error = {"code", "message", "issues"}
        /\ effects.sent[1].body.error.code = "VALIDATION_ERROR"
        /\ effects.sent[1].body.error.issues = FailedWith.val
        /\ effects.sent[1].body.error.message =
              ResponseText.validation_failed
              \o <<DigitChars[Len(FailedWith.val) + 1]>> \o ResponseText.issue_s

\* Express answered a failing request with the default response
C16_Witness ==
    /\ effects # NotCalled
    /\ middleware.adapter = "express"
    /\ ~middleware.options.onError.some
    /\ FailedWith.some
    /\ Len(FailedWith.val) = 1
    /\ Len(effects.sent) = 1

\* C17 as stated: in every adapter, when an onError handler is configured and
\* validation fails, the handler is called exactly once with the issue list and the
\* adapter itself sends no default 400 response.
C17_HandlerReplacesDefault ==
    (effects # NotCalled /\ FailedWith.some /\ middleware.options.onError.some) =>
        /\ effects.handled = <<FailedWith.val>>
        /\ Len(SentBy("adapter")) = 0

\* C17: when an onError handler is configured and validation fails, the handler is
\* called exactly once with the issue list; the Express and Fastify adapters then
\* send no default 400 response, and the Hono adapter sends none when the handler
\* returns a Response and sends the default 400 response when it returns none.
C17_HandlerCalledOnce ==
    (effects # NotCalled /\ FailedWith.some /\ middleware.options.onError.some) =>
        /\ effects.handled = <<FailedWith.val>>
        /\ middleware.adapter \in {"express", "fastify"} => Len(SentBy("adapter")) = 0
        /\ middleware.adapter = "hono" =>
              IF middleware.options.onError.val = "responds"
              THEN Len(SentBy("adapter")) = 0 /\ Len(SentBy("handler")) = 1
              ELSE /\ effects.sent = <<[by |-> "adapter", status |-> 400,
                                        body |-> createErrorResponse(FailedWith.val)]>>

\* the Hono adapter fell back to the default response after a silent handler
C17_Witness ==
    /\ effects # NotCalled
    /\ middleware.adapter = "hono"
    /\ middleware.options.onError = Some("nothing")
    /\ FailedWith.some
    /\ Len(effects.handled) = 1
    /\ Len(SentBy("adapter")) = 1

\* C18: a middleware calls next exactly once when validation succeeds (the Fastify
\* hook has no next and returns without replying) and never when validation fails;
\* in no run does it both send an error response and call next.
C18_NextOnlyOnSuccess ==
    effects # NotCalled =>
        /\ Succeeded =>
              /\ Len(NextBy("adapter")) = (IF middleware.adapter = "fastify" THEN 0 ELSE 1)
              /\ effects.next = NextBy("adapter")
              /\ Len(effects.sent) = 0
        /\ FailedWith.some => Len(NextBy("adapter")) = 0
        /\ ~(Len(SentBy("adapter")) > 0 /\ Len(NextBy("adapter")) > 0)

\* Express passed a valid request on
C18_Witness ==
    /\ effects # NotCalled
    /\ middleware.adapter = "express"
    /\ Succeeded
    /\ effects.next = <<"adapter">>
    /\ effects.validated.some

\* Hono answered an invalid request and did not call next
C18_WitnessFailure ==
    /\ effects # NotCalled
    /\ middleware.adapter = "hono"
    /\ FailedWith.some
    /\ Len(effects.sent) = 1
    /\ effects.next = <<>>

\* the issues a middleware run passed to onError or sent in an error body
PassedOnIssues ==
    IF effects = NotCalled THEN {}
    ELSE UNION ({{effects.handled[i][j] : j \in 1..Len(effects.handled[i])} :
                    i \in 1..Len(effects.handled)}
                \cup {{effects.sent[i].body.error.issues[j] :
                          j \in 1..Len(effects.sent[i].body.error.issues)} :
                      i \in {k \in 1..Len(effects.sent) : effects.sent[k].by = "adapter"}})

\* C30: every issue an adapter passes to onError or puts in an error body has path
\* absent or non-empty, the invalid_json issue of the Hono adapter included.
C30_AdapterIssuesPathAbsentOrNonEmpty ==
    \A issue \in PassedOnIssues : Has(issue, "path") => Len(issue.path) > 0

(***************************************************************************)
(* Properties of the single-failure mapping (SpecFormat).                   *)
(***************************************************************************)
\* the issue of arkErrors[i] when that failure is not split
SingleIssue(i) == issues.val[IssueOffset(i) + 1]

\* C23: a failure that is not split and whose engine code is predicate or required
\* gets that code, whatever its expected text says.
C23_EngineCodeBeforeKeywords ==
    issues.some =>
        \A i \in 1..Len(arkErrors) :
            (/\ ~IsSplit(arkErrors[i])
             /\ Has(arkErrors[i], "code")
             /\ arkErrors[i].code \in {"predicate", "required"})
            => SingleIssue(i).code = arkErrors[i].code

MinCodes == {ErrorCodes.STRING_MIN, ErrorCodes.ARRAY_MIN, ErrorCodes.NUMBER_MIN}
MaxCodes == {ErrorCodes.STRING_MAX, ErrorCodes.ARRAY_MAX, ErrorCodes.NUMBER_MAX}

\* C24: a failure that is not split, has a rule and gets a min / max code has
\* params.min / params.max equal to its rule, for every rule, 0 included.
C24_RuleBeforeText ==
    issues.some =>
        \A i \in 1..Len(arkErrors) :
            (~IsSplit(arkErrors[i]) /\ Has(arkErrors[i], "rule")) =>
                /\ SingleIssue(i).code \in MinCodes =>
                      /\ Has(SingleIssue(i), "params")
                      /\ Has(SingleIssue(i).params, "min")
                      /\ SingleIssue(i).params.min = arkErrors[i].rule
                /\ SingleIssue(i).code \in MaxCodes =>
                      /\ Has(SingleIssue(i), "params")
                      /\ Has(SingleIssue(i).params, "max")
                      /\ SingleIssue(i).params.max = arkErrors[i].rule

(***************************************************************************)
(* Properties of the form resolver (SpecResolver).                         *)
(***************************************************************************)
\* the issues the resolver's schema reports for the form values
FormIssues ==
    IF form.wrapped THEN errorFormatterFormat(engineConfig, form.arkType.errors)
    ELSE format(form.arkType.errors, <<>>)

\* the resolver was called on values its schema rejects, and returned
ResolvedFailure ==
    /\ form.schema = "form"
    /\ form.arkType.kind = "errors"
    /\ resolved.kind = "return"

AllFieldCriteria ==
    form.options.validateAllFieldCriteria.some /\ form.options.validateAllFieldCriteria.val

C19_WitnessRaw ==
    /\ ResolvedFailure
    /\ ~form.wrapped
    /\ Len(FormIssues) >= 2
    /\ \E field \in DOMAIN resolved.value.errors :
          \E i \in 1..Len(FormIssues) :
              /\ join(FormIssues[i].path, <<".">>) = field
              /\ FormIssues[i].code # resolved.value.errors[field].type

\* C29: whenever the schema rejects the form values the resolver returns, without
\* throwing, empty values and an error map with at least one entry.
C29_RejectionGivesErrors ==
    (form.schema = "form" /\ form.arkType.kind = "errors" /\ resolved # NotCalled) =>
        /\ resolved.kind = "return"
        /\ resolved.value.values = <<>>
        /\ DOMAIN resolved.value.errors # {}

(***************************************************************************)
(* Properties of the validation cache (SpecCache).                         *)
(***************************************************************************)
\* C20: after any sequence of set, get and clear with any keys, the cache holds at
\* most maxSize entries.
C20_AtMostMaxSizeEntries == getCacheStats.size <= getCacheStats.maxSize


\* the last get hit the entry that the last set wrote with a ttl
HitAfterStore ==
    /\ got.kind = "return" /\ stored.kind = "set"
    /\ got.key = stored.key
    /\ got.at > stored.at
    /\ stored.ttl.some

\* C26: an entry stored at time s with a ttl t is returned by get only at times up
\* to s + t, for every t passed, 0 included; a get after that time returns null
\* and leaves no entry for the key.
C26_ReturnedOnlyWithinTtl ==
    HitAfterStore =>
        IF got.at <= stored.at + stored.ttl.val THEN TRUE
        ELSE got.value = null /\ ~mapHas(cache, got.key)

mapKeys(map) == {map[i].key : i \in 1..Len(map)}

\* C27: a set at capacity evicts the key inserted earliest among those present when
\* the key being set is new, and evicts nothing when that key is already present.
C27_EvictOldestOnlyForNewKey ==
    [][\A key \in CacheKeys, value \in CachedValues, ttl \in Ttls :
          (/\ size(cache) >= maxSize
           /\ cache' = set(cache, key, value, ttl, now)
           /\ stored' = [kind |-> "set", key |-> key, ttl |-> ttl, at |-> now])
          => mapKeys(cache') = IF mapHas(cache, key) THEN mapKeys(cache)
                               ELSE (mapKeys(cache) \ {cache[1].key}) \cup {key}]_vars

(***************************************************************************)
(* Properties of the cached validators (SpecCached).                       *)
(***************************************************************************)
Calls == 1..Len(calls)

\* the calls whose underlying validator returned, so that they stored a result
HasStored(i) == calls[i].stage = "done" /\ calls[i].invoked /\ ~calls[i].threw
Stored == {i \in Calls : HasStored(i)}

\* call j started after call i of the same cached validator, with the same key, returned
LaterSameKey(i, j) ==
    /\ i \in calls[j].after
    /\ calls[j].wrapped = calls[i].wrapped
    /\ calls[j].key = calls[i].key

IsAsyncFailure(result) ==
    /\ result.some
    /\ ~result.val.success
    /\ Len(result.val.errors) = 1
    /\ result.val.errors[1].key = "ASYNC_VALIDATION_FAILED"

Concurrent(i, j) ==
    /\ i < j
    /\ i \notin calls[j].after
    /\ calls[j].wrapped = calls[i].wrapped
    /\ calls[j].key = calls[i].key

\* call i stored last under key
StoredLast(i, key) ==
    /\ HasStored(i)
    /\ calls[i].key = key
    /\ \A k \in Calls :
           (HasStored(k) /\ calls[k].key = key) => calls[k].order <= calls[i].order

\* C25: two calls of a cached validator with the same key, the second started while
\* the first awaits its validator and no other call having used the key, both invoke
\* the underlying validator; and the entry the cache holds for a key is the result
\* of the call that stored last under it.
C25_BothInvokeLastStoreWins ==
    /\ \A i \in Calls, j \in Calls :
           (/\ Concurrent(i, j)
            /\ \A k \in Calls \ {i, j} : calls[k].key # calls[i].key)
           => calls[i].invoked /\ calls[j].invoked
    /\ \A e \in 1..Len(cache), i \in Calls :
           StoredLast(i, cache[e].key) => cache[e].value = calls[i].result.val

\* two concurrent calls for one key got different results from the validator, and
\* the cache holds the result of the one that returned last
C25_Witness ==
    \E i \in Stored, j \in Stored :
        /\ Concurrent(i, j)
        /\ calls[i].result # calls[j].result
        /\ calls[i].order > calls[j].order
        /\ mapHas(cache, calls[i].key)
        /\ mapGet(cache, calls[i].key).value = calls[i].result.val

\* the results a call can get from the underlying validator of its own cached
\* validator, the failure of the catch block included
OwnResults(call) ==
    {IF outcome_.kind = "return" THEN outcome_.value
     ELSE catchError(cache, call, outcome_.error).result :
         outcome_ \in settles(Wrapped[call.wrapped].validator, call.value)}

\* C28: the result a cached validator returns for a value is one its own underlying
\* validator produces for that value, never one stored by another cached validator.
C28_ResultFromOwnValidator ==
    \A i \in Calls :
        calls[i].stage = "done" => calls[i].result.val \in OwnResults(calls[i])


=============================================================================
